---- MODULE Spec2Model ----
(***************************************************************************)
(* Model of the session-construction and aggregation pipeline of           *)
(* vibe-coding-stats (packages/core): buildSessions, createSession,        *)
(* calculateAggregateStats, aggregateByAuthor, aggregateByDay and the      *)
(* part of getRepoStats that sequences them; and of the memory cache of    *)
(* util/cache.ts: getFromCache, setInCache, clearCache, getCacheSize; and   *)
(* of the paginated download of api/github.ts: fetchCommits.                *)
(*                                                                         *)
(* Representation of numbers.  The code works on JavaScript doubles; the   *)
(* model keeps every quantity exact, as an integer in a fixed unit:        *)
(*   - instants (Date.getTime()) are milliseconds counted from             *)
(*     2024-01-15T00:00:00Z (EpochDay days after 1970-01-01);              *)
(*   - unrounded minute values (gaps, durationMinutes) are carried in      *)
(*     milliseconds, x minutes being x * MsPerMinute;                      *)
(*   - values the code rounds with Math.round(v * 100) / 100 are carried   *)
(*     in hundredths (the integer Math.round(v * 100)).                    *)
(* An optional value (T | undefined) is None (undefined) or Some(v).       *)
(***************************************************************************)
EXTENDS Integers, Sequences, FiniteSets, TLC

VARIABLES commits, config, sessions, totals, perAuthor, perDay, pc,
          cache,     \* the Map of the MemoryCache singleton
          now,       \* Date.now()
          returned,  \* what the getFromCache call that has just ended returned
          stored,    \* history: per key, the last setInCache since the last clearCache
          fetchOptions,  \* the options of the fetchCommits call
          server,    \* the commits of the repository on GitHub, as the API lists them
          loop,      \* the locals page, hasMore and commits of fetchCommits
          requests,  \* history: the page numbers requested so far
          outcome,   \* how fetchCommits ended: None while it runs
          calls      \* history: the getRepoStats calls that have ended, in order

statsVars == <<commits, config, sessions, totals, perAuthor, perDay, pc>>
cacheVars == <<cache, now, returned, stored>>
fetchVars == <<fetchOptions, server, loop, requests, outcome, calls>>

vars == <<commits, config, sessions, totals, perAuthor, perDay, pc,
          cache, now, returned, stored,
          fetchOptions, server, loop, requests, outcome, calls>>

----------------------------------------------------------------------------
(* Bounds of the model *)

MaxCommits == 3

----------------------------------------------------------------------------
(* Units and option values *)

MsPerMinute == 60000
MinutesPerHour == 60
MsPerDay == 86400000
\* milliseconds in a hundredth of a minute and in a hundredth of an hour
MsPerCentiMinute == MsPerMinute \div 100
MsPerCentiHour == (MsPerMinute * MinutesPerHour) \div 100
EpochDay == 19737

None == <<>>
Some(v) == <<v>>
IsSome(o) == o # None
Val(o) == o[1]

Min(a, b) == IF a <= b THEN a ELSE b
Max(a, b) == IF a >= b THEN a ELSE b
Abs(a) == IF a < 0 THEN 0 - a ELSE a

\* Math.round(num / den) for num >= 0, den > 0: round half up
RoundDiv(num, den) == (2 * num + den) \div (2 * den)

Last(s) == s[Len(s)]

\* Array.prototype.sort with a comparator that is a total preorder: the
\* sort is stable (ECMAScript 2019), elements that compare equal keep their
\* order.  Less(a, b) is "compare(a, b) < 0".
StableSort(s, Less(_, _)) ==
  LET rank(i) == Cardinality({j \in 1..Len(s) : Less(s[j], s[i])})
                 + Cardinality({j \in 1..(i - 1) : ~Less(s[i], s[j]) /\ ~Less(s[j], s[i])})
                 + 1
  IN [r \in 1..Len(s) |-> s[CHOOSE i \in 1..Len(s) : rank(i) = r]]

\* the distinct elements of s in order of first appearance
RECURSIVE Distinct(_)
Distinct(s) ==
  IF s = <<>> THEN <<>>
  ELSE LET d == Distinct(SubSeq(s, 1, Len(s) - 1))
       IN IF \E i \in 1..Len(d) : d[i] = Last(s) THEN d ELSE Append(d, Last(s))

Range(s) == {s[i] : i \in 1..Len(s)}

----------------------------------------------------------------------------
(* util/time.ts *)

\* |date1 - date2| in minutes, fractional; here in milliseconds
diffInMinutes(date1, date2) == Abs(date1 - date2)

\* UTC offset of a zone in milliseconds (standard time, January)
ZoneOffsetMs(timezone) ==
  CASE timezone = "UTC" -> 0
    [] timezone = "America/New_York" -> 0 - 5 * 60 * MsPerMinute

\* civil date <<y, m, d>> of a day number counted from 1970-01-01
CivilFromDays(days) ==
  LET z == days + 719468
      era == z \div 146097
      doe == z - era * 146097
      yoe == (doe - doe \div 1460 + doe \div 36524 - doe \div 146096) \div 365
      doy == doe - (365 * yoe + yoe \div 4 - yoe \div 100)
      mp == (5 * doy + 2) \div 153
      d == doy - (153 * mp + 2) \div 5 + 1
      m == IF mp < 10 THEN mp + 3 ELSE mp - 9
      y == yoe + era * 400 + (IF m <= 2 THEN 1 ELSE 0)
  IN <<y, m, d>>

\* character codes: '-' is 45, '0'..'9' are 48..57
DigitChar(n) == 48 + n
Pad2(n) == <<DigitChar(n \div 10), DigitChar(n % 10)>>
Pad4(n) == <<DigitChar(n \div 1000), DigitChar((n \div 100) % 10),
             DigitChar((n \div 10) % 10), DigitChar(n % 10)>>

\* "YYYY-MM-DD" as its sequence of character codes
FormatISODate(ymd) == Pad4(ymd[1]) \o <<45>> \o Pad2(ymd[2]) \o <<45>> \o Pad2(ymd[3])

\* the calendar day on which the instant falls in the zone
LocalDay(date, timezone) == EpochDay + ((date + ZoneOffsetMs(timezone)) \div MsPerDay)

toISODate(date, timezone) == FormatISODate(CivilFromDays(LocalDay(date, timezone)))

----------------------------------------------------------------------------
(* logic/sessions.ts *)

\* JavaScript truthiness of an optional string
Truthy(o) == IsSome(o) /\ Val(o) # ""

\* position of the key in a Map kept as the sequence of its entries in
\* insertion order; 0 when the key is absent
MapIndex(map, key) ==
  IF \E i \in 1..Len(map) : map[i].key = key
    THEN CHOOSE i \in 1..Len(map) : map[i].key = key
    ELSE 0

\* faulty variant of the grouping loop: the authorLogin of the author's first
\* commit is kept
groupCommit_firstCommitOnly(map, commit) ==
  LET idx == MapIndex(map, commit.author)
      existing == IF idx # 0 THEN map[idx]
                  ELSE [key |-> commit.author, commits |-> <<>>,
                        authorLogin |-> commit.authorLogin]
      entry == [existing EXCEPT !.commits = Append(@, commit)]
  IN IF idx # 0 THEN [map EXCEPT ![idx] = entry] ELSE Append(map, entry)

\* one iteration of the grouping loop of buildSessions
groupCommit(map, commit) ==
  LET idx == MapIndex(map, commit.author)
      existing == IF idx # 0 THEN map[idx]
                  ELSE [key |-> commit.author, commits |-> <<>>,
                        authorLogin |-> commit.authorLogin]
      pushed == [existing EXCEPT !.commits = Append(@, commit)]
      entry == IF ~Truthy(pushed.authorLogin) /\ Truthy(commit.authorLogin)
                 THEN [pushed EXCEPT !.authorLogin = commit.authorLogin]
                 ELSE pushed
  IN IF idx # 0 THEN [map EXCEPT ![idx] = entry] ELSE Append(map, entry)

RECURSIVE commitsByAuthor(_)
commitsByAuthor(cs) ==
  IF cs = <<>> THEN <<>>
  ELSE groupCommit(commitsByAuthor(SubSeq(cs, 1, Len(cs) - 1)), Last(cs))

\* faulty variants of the sort: newest first, and no sort at all
sortedCommits_descending(cs) == StableSort(cs, LAMBDA a, b : b.date - a.date < 0)
sortedCommits_omitted(cs) == cs

\* authorCommits.sort((a, b) => a.date.getTime() - b.date.getTime())
sortedCommits(cs) == StableSort(cs, LAMBDA a, b : a.date - b.date < 0)

\* faulty variant of the test of the sweep: exclusive boundary
continuesSession_exclusive(gap, sessionTimeoutMin) == gap < sessionTimeoutMin * MsPerMinute

\* the test `gap <= sessionTimeoutMin` of the sweep
continuesSession(gap, sessionTimeoutMin) == gap <= sessionTimeoutMin * MsPerMinute

\* faulty variant of the duration: the bonus counted for every commit
durationOf_bonusPerCommit(cs, firstCommitBonusMin) ==
  IF Len(cs) = 1 THEN firstCommitBonusMin * MsPerMinute
  ELSE diffInMinutes(cs[1].date, cs[Len(cs)].date)
       + Len(cs) * firstCommitBonusMin * MsPerMinute

\* durationMinutes of createSession
durationOf(cs, firstCommitBonusMin) ==
  IF Len(cs) = 1 THEN firstCommitBonusMin * MsPerMinute
  ELSE diffInMinutes(cs[1].date, Last(cs).date) + firstCommitBonusMin * MsPerMinute

\* faulty variant of the date: the day on which the session ends
dateOf_endDay(cs, timezone) == toISODate(cs[Len(cs)].date, timezone)

\* date of createSession
dateOf(cs, timezone) == toISODate(cs[1].date, timezone)

\* gaps of createSession
gapsOf(cs) == [i \in 1..(Len(cs) - 1) |-> diffInMinutes(cs[i + 1].date, cs[i].date)]

RECURSIVE SumSeq(_)
SumSeq(s) == IF s = <<>> THEN 0 ELSE SumSeq(SubSeq(s, 1, Len(s) - 1)) + Last(s)

RECURSIVE MaxSeq(_)
MaxSeq(s) == IF Len(s) = 1 THEN s[1] ELSE Max(MaxSeq(SubSeq(s, 1, Len(s) - 1)), Last(s))

\* faulty variant of the average: divided by the number of commits
avgGapOf_perCommit(cs) ==
  IF Len(cs) > 1
    THEN Some(RoundDiv(SumSeq(gapsOf(cs)), Len(cs) * MsPerCentiMinute))
    ELSE None

\* Math.round((totalGap / gaps.length) * 100) / 100, in hundredths of a minute
avgGapOf(cs) ==
  IF Len(cs) > 1
    THEN Some(RoundDiv(SumSeq(gapsOf(cs)), Len(gapsOf(cs)) * MsPerCentiMinute))
    ELSE None

\* Math.round(Math.max(...gaps) * 100) / 100, in hundredths of a minute
maxGapOf(cs) ==
  IF Len(cs) > 1
    THEN Some(RoundDiv(MaxSeq(gapsOf(cs)), MsPerCentiMinute))
    ELSE None

createSession(cs, author, authorLogin, firstCommitBonusMin, timezone) ==
  [author |-> author,
   authorLogin |-> authorLogin,
   commits |-> cs,
   startTime |-> cs[1].date,
   endTime |-> Last(cs).date,
   durationMinutes |-> durationOf(cs, firstCommitBonusMin),
   date |-> dateOf(cs, timezone),
   avgMinutesBetweenCommits |-> avgGapOf(cs),
   maxMinutesBetweenCommits |-> maxGapOf(cs)]

\* faulty variant of the sweep: the gap is measured from the first commit of
\* the open session instead of its last commit
sweepCommit_fromStart(st, commit, author, authorLogin, cfg) ==
  IF Len(st.currentSession) = 0
    THEN [st EXCEPT !.currentSession = <<commit>>]
  ELSE IF continuesSession(diffInMinutes(commit.date, st.currentSession[1].date),
                           cfg.sessionTimeoutMin)
    THEN [st EXCEPT !.currentSession = Append(@, commit)]
  ELSE [sessions |-> Append(st.sessions,
                            createSession(st.currentSession, author, authorLogin,
                                          cfg.firstCommitBonusMin, cfg.timezone)),
        currentSession |-> <<commit>>]

\* one iteration of the sweep over an author's sorted commits; st holds the
\* sessions emitted so far and the open session
sweepCommit(st, commit, author, authorLogin, cfg) ==
  IF Len(st.currentSession) = 0
    THEN [st EXCEPT !.currentSession = <<commit>>]
  ELSE IF continuesSession(diffInMinutes(commit.date, Last(st.currentSession).date),
                           cfg.sessionTimeoutMin)
    THEN [st EXCEPT !.currentSession = Append(@, commit)]
  ELSE [sessions |-> Append(st.sessions,
                            createSession(st.currentSession, author, authorLogin,
                                          cfg.firstCommitBonusMin, cfg.timezone)),
        currentSession |-> <<commit>>]

RECURSIVE sweep(_, _, _, _, _)
sweep(st, cs, author, authorLogin, cfg) ==
  IF cs = <<>> THEN st
  ELSE sweep(sweepCommit(st, cs[1], author, authorLogin, cfg), Tail(cs),
             author, authorLogin, cfg)

\* faulty variant of the loop body: the session still open after the sweep is
\* forgotten
processAuthor_lastSessionDropped(sess, entry, cfg) ==
  sweep([sessions |-> sess, currentSession |-> <<>>],
        sortedCommits(entry.commits), entry.key, entry.authorLogin, cfg).sessions

\* the body of the loop over commitsByAuthor: the sessions list after the
\* author's commits are processed
processAuthor(sess, entry, cfg) ==
  LET st == sweep([sessions |-> sess, currentSession |-> <<>>],
                  sortedCommits(entry.commits), entry.key, entry.authorLogin, cfg)
  IN IF Len(st.currentSession) > 0
       THEN Append(st.sessions,
                   createSession(st.currentSession, entry.key, entry.authorLogin,
                                 cfg.firstCommitBonusMin, cfg.timezone))
       ELSE st.sessions

RECURSIVE processAuthors(_, _)
processAuthors(map, cfg) ==
  IF map = <<>> THEN <<>>
  ELSE processAuthor(processAuthors(SubSeq(map, 1, Len(map) - 1), cfg), Last(map), cfg)

buildSessions(cs, cfg) == processAuthors(commitsByAuthor(cs), cfg)

----------------------------------------------------------------------------
(* logic/aggregate.ts *)

\* a < b for strings given as sequences of character codes (code-unit order)
RECURSIVE StrLess(_, _)
StrLess(a, b) ==
  IF b = <<>> THEN FALSE
  ELSE IF a = <<>> THEN TRUE
  ELSE IF a[1] # b[1] THEN a[1] < b[1]
  ELSE StrLess(Tail(a), Tail(b))

\* the zone of the machine the library runs on, used by Date.getDay()
MachineTimezone == "UTC"

\* Date.prototype.getDay(): 0 is Sunday; 1970-01-01 was a Thursday
getDay(date) == (LocalDay(date, MachineTimezone) + 4) % 7

dayNames == <<"Sunday", "Monday", "Tuesday", "Wednesday", "Thursday", "Friday", "Saturday">>

\* day number counted from 1970-01-01 of the civil date y-m-d
DaysFromCivil(y, m, d) ==
  LET yy == IF m <= 2 THEN y - 1 ELSE y
      era == yy \div 400
      yoe == yy - era * 400
      mp == IF m > 2 THEN m - 3 ELSE m + 9
      doy == (153 * mp + 2) \div 5 + d - 1
      doe == yoe * 365 + yoe \div 4 - yoe \div 100 + doy
  IN era * 146097 + doe - 719468

\* new Date("YYYY-MM-DD").getTime(): midnight UTC of the day, in
\* milliseconds counted from the origin of the model
ParseISODate(str) ==
  LET n(i) == str[i] - 48
      y == 1000 * n(1) + 100 * n(2) + 10 * n(3) + n(4)
      m == 10 * n(6) + n(7)
      d == 10 * n(9) + n(10)
  IN (DaysFromCivil(y, m, d) - EpochDay) * MsPerDay

\* the sequence of s.date, s.durationMinutes, ... over the sessions
MapSeq(s, f(_)) == [i \in 1..Len(s) |-> f(s[i])]

\* dayHours of calculateMostProductiveDayOfWeek: a Map from weekday to the
\* summed durations, as the sequence of its entries in insertion order
RECURSIVE dayHoursOf(_)
dayHoursOf(ss) ==
  IF ss = <<>> THEN <<>>
  ELSE LET map == dayHoursOf(SubSeq(ss, 1, Len(ss) - 1))
           session == Last(ss)
           dayOfWeek == getDay(session.startTime)
           idx == MapIndex(map, dayOfWeek)
       IN IF idx # 0
            THEN [map EXCEPT ![idx].hours = @ + session.durationMinutes]
            ELSE Append(map, [key |-> dayOfWeek, hours |-> session.durationMinutes])

\* the scan for the day with most hours; st is <<maxHours, maxDay>>
RECURSIVE scanMaxDay(_, _)
scanMaxDay(st, entries) ==
  IF entries = <<>> THEN st
  ELSE scanMaxDay(IF entries[1].hours > st[1]
                    THEN <<entries[1].hours, entries[1].key>>
                    ELSE st,
                  Tail(entries))

\* faulty variant of the scan: hours >= maxHours, the last of the tied days wins
RECURSIVE scanMaxDay_nonStrict(_, _)
scanMaxDay_nonStrict(st, entries) ==
  IF entries = <<>> THEN st
  ELSE scanMaxDay_nonStrict(IF entries[1].hours >= st[1]
                              THEN <<entries[1].hours, entries[1].key>>
                              ELSE st,
                            Tail(entries))

calculateMostProductiveDayOfWeek_nonStrict(ss) ==
  IF Len(ss) = 0 THEN None
  ELSE Some(dayNames[scanMaxDay_nonStrict(<<0, 0>>, dayHoursOf(ss))[2] + 1])

calculateMostProductiveDayOfWeek(ss) ==
  IF Len(ss) = 0 THEN None
  ELSE Some(dayNames[scanMaxDay(<<0, 0>>, dayHoursOf(ss))[2] + 1])

\* the loop of calculateLongestStreakDays; st is <<currentStreak, longestStreak>>
RECURSIVE streakScan(_, _, _)
streakScan(st, dates, i) ==
  IF i > Len(dates) THEN st
  ELSE LET diffTime == ParseISODate(dates[i]) - ParseISODate(dates[i - 1])
           diffDays == RoundDiv(diffTime, MsPerDay)
       IN streakScan(IF diffDays = 1
                       THEN <<st[1] + 1, Max(st[2], st[1] + 1)>>
                       ELSE <<1, st[2]>>,
                     dates, i + 1)

\* faulty variant of calculateLongestStreakDays: the streak counters start at
\* 1 before the list is found empty
calculateLongestStreakDays_noEmptyReturn(ss) ==
  LET dates == StableSort(Distinct(MapSeq(ss, LAMBDA x : x.date)), StrLess)
  IN streakScan(<<1, 1>>, dates, 2)[2]

\* faulty variant of calculateLongestStreakDays: the distinct dates are
\* scanned in list order, unsorted
calculateLongestStreakDays_unsorted(ss) ==
  IF Len(ss) = 0 THEN 0
  ELSE streakScan(<<1, 1>>, Distinct(MapSeq(ss, LAMBDA x : x.date)), 2)[2]

calculateLongestStreakDays(ss) ==
  IF Len(ss) = 0 THEN 0
  ELSE LET dates == StableSort(Distinct(MapSeq(ss, LAMBDA x : x.date)), StrLess)
       IN streakScan(<<1, 1>>, dates, 2)[2]

\* the sessions of one author, in list order
SessionsOf(ss, author) == SelectSeq(ss, LAMBDA x : x.author = author)

\* the positive gaps between an author's sessions adjacent in endTime order
positiveGapsOf(authorSessions) ==
  LET sortedSessions == StableSort(authorSessions,
                                   LAMBDA a, b : a.endTime - b.endTime < 0)
      gapMinutes(i) == sortedSessions[i].startTime - sortedSessions[i - 1].endTime
  IN {gapMinutes(i) : i \in {j \in 2..Len(sortedSessions) : gapMinutes(j) > 0}}

\* Math.round(minGapMinutes * 100) / 100 in hundredths of a minute, None
\* when minGapMinutes is still Infinity
\* faulty variant of calculateMinTimeBetweenSessions: the sessions are not
\* grouped by author
calculateMinTimeBetweenSessions_allAuthors(ss) ==
  IF Len(ss) < 2 THEN None
  ELSE LET gaps == positiveGapsOf(ss)
       IN IF gaps = {} THEN None
          ELSE Some(RoundDiv(CHOOSE g \in gaps : \A h \in gaps : g <= h,
                             MsPerCentiMinute))

calculateMinTimeBetweenSessions(ss) ==
  IF Len(ss) < 2 THEN None
  ELSE LET authors == {ss[i].author : i \in 1..Len(ss)}
           gaps == UNION {positiveGapsOf(SessionsOf(ss, a)) :
                            a \in {b \in authors : Len(SessionsOf(ss, b)) >= 2}}
       IN IF gaps = {} THEN None
          ELSE Some(RoundDiv(CHOOSE g \in gaps : \A h \in gaps : g <= h,
                             MsPerCentiMinute))

\* allCommitGaps: session.avgMinutesBetweenCommits repeated numGaps times
\* faulty variant of allCommitGaps: each session's average is pushed once
RECURSIVE allCommitGapsOf_oncePerSession(_)
allCommitGapsOf_oncePerSession(ss) ==
  IF ss = <<>> THEN <<>>
  ELSE LET session == Last(ss)
           rest == allCommitGapsOf_oncePerSession(SubSeq(ss, 1, Len(ss) - 1))
       IN IF IsSome(session.avgMinutesBetweenCommits)
            THEN Append(rest, Val(session.avgMinutesBetweenCommits))
            ELSE rest

RECURSIVE allCommitGapsOf(_)
allCommitGapsOf(ss) ==
  IF ss = <<>> THEN <<>>
  ELSE LET session == Last(ss)
           rest == allCommitGapsOf(SubSeq(ss, 1, Len(ss) - 1))
       IN IF IsSome(session.avgMinutesBetweenCommits)
            THEN rest \o [k \in 1..(Len(session.commits) - 1) |->
                            Val(session.avgMinutesBetweenCommits)]
            ELSE rest

\* maxCommitGap after the loop over the sessions
RECURSIVE maxCommitGapOf(_)
maxCommitGapOf(ss) ==
  IF ss = <<>> THEN 0
  ELSE LET session == Last(ss)
           rest == maxCommitGapOf(SubSeq(ss, 1, Len(ss) - 1))
       IN IF IsSome(session.maxMinutesBetweenCommits)
            THEN Max(rest, Val(session.maxMinutesBetweenCommits))
            ELSE rest

\* totalHours before rounding, in milliseconds
\* faulty variant of the sum of the hours: every session's hours are rounded
\* to 2 decimals before they are added
totalHoursOf_roundedPerSession(ss) ==
  SumSeq(MapSeq(ss, LAMBDA x : RoundDiv(x.durationMinutes, MsPerCentiHour) * MsPerCentiHour))

totalHoursOf(ss) == SumSeq(MapSeq(ss, LAMBDA x : x.durationMinutes))

calculateAggregateStats(ss) ==
  LET totalHours == totalHoursOf(ss)
      sessionsCount == Len(ss)
      totalCommits == SumSeq(MapSeq(ss, LAMBDA x : Len(x.commits)))
      uniqueDays == {ss[i].date : i \in 1..Len(ss)}
      devDays == Cardinality(uniqueDays)
      longestSessionHours ==
        IF Len(ss) > 0 THEN MaxSeq(MapSeq(ss, LAMBDA x : x.durationMinutes)) ELSE 0
      allCommitGaps == allCommitGapsOf(ss)
      maxCommitGap == maxCommitGapOf(ss)
  IN [totalHours |-> RoundDiv(totalHours, MsPerCentiHour),
      sessionsCount |-> sessionsCount,
      devDays |-> devDays,
      totalCommits |-> totalCommits,
      avgCommitsPerSession |->
        IF sessionsCount > 0 THEN RoundDiv(100 * totalCommits, sessionsCount) ELSE 0,
      avgSessionsPerDay |->
        IF devDays > 0 THEN RoundDiv(100 * sessionsCount, devDays) ELSE 0,
      longestSessionHours |-> RoundDiv(longestSessionHours, MsPerCentiHour),
      avgSessionHours |->
        IF sessionsCount > 0
          THEN RoundDiv(totalHours, sessionsCount * MsPerCentiHour) ELSE 0,
      mostProductiveDayOfWeek |-> calculateMostProductiveDayOfWeek(ss),
      longestStreakDays |-> calculateLongestStreakDays(ss),
      minTimeBetweenSessionsMin |-> calculateMinTimeBetweenSessions(ss),
      avgMinutesBetweenCommits |->
        IF Len(allCommitGaps) > 0
          THEN Some(RoundDiv(SumSeq(allCommitGaps), Len(allCommitGaps)))
          ELSE None,
      maxMinutesBetweenCommits |->
        IF maxCommitGap > 0 THEN Some(maxCommitGap) ELSE None]

calculateTotals(ss) == calculateAggregateStats(ss)

\* faulty variant of the grouping loop: the session is put in front of the
\* author's sessions
groupSession_unshift(map, session) ==
  LET idx == MapIndex(map, session.author)
      existing == IF idx # 0 THEN map[idx]
                  ELSE [key |-> session.author, sessions |-> <<>>,
                        authorLogin |-> session.authorLogin]
      pushed == [existing EXCEPT !.sessions = <<session>> \o @]
      entry == IF ~Truthy(pushed.authorLogin) /\ Truthy(session.authorLogin)
                 THEN [pushed EXCEPT !.authorLogin = session.authorLogin]
                 ELSE pushed
  IN IF idx # 0 THEN [map EXCEPT ![idx] = entry] ELSE Append(map, entry)

\* one iteration of the grouping loop of aggregateByAuthor
groupSession(map, session) ==
  LET idx == MapIndex(map, session.author)
      existing == IF idx # 0 THEN map[idx]
                  ELSE [key |-> session.author, sessions |-> <<>>,
                        authorLogin |-> session.authorLogin]
      pushed == [existing EXCEPT !.sessions = Append(@, session)]
      entry == IF ~Truthy(pushed.authorLogin) /\ Truthy(session.authorLogin)
                 THEN [pushed EXCEPT !.authorLogin = session.authorLogin]
                 ELSE pushed
  IN IF idx # 0 THEN [map EXCEPT ![idx] = entry] ELSE Append(map, entry)

RECURSIVE sessionsByAuthor(_)
sessionsByAuthor(ss) ==
  IF ss = <<>> THEN <<>>
  ELSE groupSession(sessionsByAuthor(SubSeq(ss, 1, Len(ss) - 1)), Last(ss))

\* the record of one author: author, authorLogin and the shared statistics
authorRecord(entry) ==
  [author |-> entry.key, authorLogin |-> entry.authorLogin]
  @@ calculateAggregateStats(entry.sessions)

\* faulty variant of the author order: ascending
authorOrder_ascending(a, b) == a.totalHours - b.totalHours < 0

\* the order of the final sort: (a, b) => b.totalHours - a.totalHours
authorOrder(a, b) == b.totalHours - a.totalHours < 0

aggregateByAuthor(ss) ==
  StableSort(MapSeq(sessionsByAuthor(ss), authorRecord), authorOrder)

\* faulty variant of the loop of aggregateByDay: the author is pushed without
\* the includes test
addToDay_noIncludes(dayMap, session) ==
  LET idx == MapIndex(dayMap, session.date)
  IN IF idx # 0
       THEN [dayMap EXCEPT
               ![idx].totalHours = @ + session.durationMinutes,
               ![idx].sessionsCount = @ + 1,
               ![idx].totalCommits = @ + Len(session.commits),
               ![idx].authors = Append(@, session.author)]
       ELSE Append(dayMap, [key |-> session.date,
                            date |-> session.date,
                            totalHours |-> session.durationMinutes,
                            sessionsCount |-> 1,
                            totalCommits |-> Len(session.commits),
                            authors |-> <<session.author>>])

\* faulty variant of the loop of aggregateByDay: a session that joins a day
\* adds one commit
addToDay_oneCommit(dayMap, session) ==
  LET idx == MapIndex(dayMap, session.date)
  IN IF idx # 0
       THEN [dayMap EXCEPT
               ![idx].totalHours = @ + session.durationMinutes,
               ![idx].sessionsCount = @ + 1,
               ![idx].totalCommits = @ + 1,
               ![idx].authors = IF session.author \in Range(@)
                                  THEN @ ELSE Append(@, session.author)]
       ELSE Append(dayMap, [key |-> session.date,
                            date |-> session.date,
                            totalHours |-> session.durationMinutes,
                            sessionsCount |-> 1,
                            totalCommits |-> Len(session.commits),
                            authors |-> <<session.author>>])

\* one iteration of the loop of aggregateByDay; totalHours is the unrounded
\* sum, in milliseconds
addToDay(dayMap, session) ==
  LET idx == MapIndex(dayMap, session.date)
  IN IF idx # 0
       THEN [dayMap EXCEPT
               ![idx].totalHours = @ + session.durationMinutes,
               ![idx].sessionsCount = @ + 1,
               ![idx].totalCommits = @ + Len(session.commits),
               ![idx].authors = IF session.author \in Range(@)
                                  THEN @ ELSE Append(@, session.author)]
       ELSE Append(dayMap, [key |-> session.date,
                            date |-> session.date,
                            totalHours |-> session.durationMinutes,
                            sessionsCount |-> 1,
                            totalCommits |-> Len(session.commits),
                            authors |-> <<session.author>>])

RECURSIVE dayMapOf(_)
dayMapOf(ss) ==
  IF ss = <<>> THEN <<>>
  ELSE addToDay(dayMapOf(SubSeq(ss, 1, Len(ss) - 1)), Last(ss))

\* faulty variant of the day order: latest day first
dayOrder_descending(a, b) == StrLess(b.date, a.date)

\* the order of the final sort: (a, b) => a.date.localeCompare(b.date)
dayOrder(a, b) == StrLess(a.date, b.date)

\* Array.from(dayMap.values())
dayValues(dayMap) ==
  MapSeq(dayMap, LAMBDA e : [date |-> e.date, totalHours |-> e.totalHours,
                             sessionsCount |-> e.sessionsCount,
                             totalCommits |-> e.totalCommits,
                             authors |-> e.authors])

aggregateByDay(ss) == StableSort(dayValues(dayMapOf(ss)), dayOrder)

----------------------------------------------------------------------------
(* util/cache.ts.  A Map is a function from the keys it holds; null and     *)
(* undefined are None.                                                      *)

\* new Map()
NoEntries == <<>>

\* MemoryCache.set at the instant t
MemoryCache_set(c, key, data, t) ==
  [k \in DOMAIN c \cup {key} |->
     IF k = key THEN [data |-> data, timestamp |-> t] ELSE c[k]]

\* Map.delete
MapDelete(c, key) == [k \in DOMAIN c \ {key} |-> c[k]]

\* faulty variant of MemoryCache.get: now - entry.timestamp >= ttlMs
MemoryCache_get_expiresAtTTL(c, key, ttlMs, t) ==
  IF key \notin DOMAIN c THEN [result |-> None, cache |-> c]
  ELSE IF t - c[key].timestamp >= ttlMs
    THEN [result |-> None, cache |-> MapDelete(c, key)]
  ELSE [result |-> Some(c[key].data), cache |-> c]

\* faulty variant of MemoryCache.get: an expired entry empties the Map
MemoryCache_get_expiryClearsAll(c, key, ttlMs, t) ==
  IF key \notin DOMAIN c THEN [result |-> None, cache |-> c]
  ELSE IF t - c[key].timestamp > ttlMs
    THEN [result |-> None, cache |-> NoEntries]
  ELSE [result |-> Some(c[key].data), cache |-> c]

\* MemoryCache.get at the instant t: the value returned and the Map after it
MemoryCache_get(c, key, ttlMs, t) ==
  IF key \notin DOMAIN c THEN [result |-> None, cache |-> c]
  ELSE IF t - c[key].timestamp > ttlMs
    THEN [result |-> None, cache |-> MapDelete(c, key)]
  ELSE [result |-> Some(c[key].data), cache |-> c]

\* MemoryCache.size
MemoryCache_size(c) == Cardinality(DOMAIN c)

\* options.cacheTTLms ?? 3600000
DefaultTTLms == 3600000

ttlMsOf(options) ==
  IF IsSome(options.cacheTTLms) THEN Val(options.cacheTTLms) ELSE DefaultTTLms

getFromCache(c, key, options, t) ==
  IF options.cache = Some("none") THEN [result |-> None, cache |-> c]
  ELSE MemoryCache_get(c, key, ttlMsOf(options), t)

setInCache(c, key, data, options, t) ==
  IF options.cache = Some("none") THEN c
  ELSE MemoryCache_set(c, key, data, t)

clearCache == NoEntries

getCacheSize(c) == MemoryCache_size(c)

\* Boolean.prototype.toString
BoolToString(b) == IF b THEN "true" ELSE "false"

\* Array.prototype.join
RECURSIVE join(_, _)
join(parts, separator) ==
  IF Len(parts) = 0 THEN ""
  ELSE IF Len(parts) = 1 THEN parts[1]
  ELSE parts[1] \o separator \o join(Tail(parts), separator)

\* the key of a call: the repository and nine of the options, each with its
\* default when it is not given; since and until are strings here
generateCacheKey(owner, repo, options) ==
  join(<<owner \o "/" \o repo,
         IF IsSome(options.since) THEN Val(options.since) ELSE "",
         IF IsSome(options.until) THEN Val(options.until) ELSE "",
         IF IsSome(options.authors) THEN join(Val(options.authors), ",") ELSE "",
         IF IsSome(options.excludeBots) THEN BoolToString(Val(options.excludeBots))
           ELSE "true",
         IF IsSome(options.excludeMergeCommits)
           THEN BoolToString(Val(options.excludeMergeCommits)) ELSE "false",
         IF IsSome(options.sessionTimeoutMin)
           THEN ToString(Val(options.sessionTimeoutMin)) ELSE "45",
         IF IsSome(options.firstCommitBonusMin)
           THEN ToString(Val(options.firstCommitBonusMin)) ELSE "15",
         IF IsSome(options.timezone) THEN Val(options.timezone) ELSE "UTC">>,
       "|")

\* the cache of a process that has just started
EmptyCache ==
  /\ cache = NoEntries
  /\ now = 0
  /\ returned = None
  /\ stored = NoEntries

----------------------------------------------------------------------------
(* api/github.ts.  A commit of the GitHub API is [sha, name, login, date,   *)
(* parents, likelyBot], likelyBot being what isLikelyBot answers for its    *)
(* name and login; a message is the sequence of its words.                  *)

\* String.prototype.toLowerCase on the words that occur in the messages
LowerWord(w) ==
  CASE w = "API" -> "api"
    [] w = "Rate" -> "rate"
    [] w = "Limit" -> "limit"
    [] w = "Forbidden" -> "forbidden"
    [] OTHER -> w

toLowerCase(message) == [i \in 1..Len(message) |-> LowerWord(message[i])]

\* message.includes('rate limit')
includesRateLimit(message) ==
  \E i \in 1..(Len(message) - 1) : message[i] = "rate" /\ message[i + 1] = "limit"

\* faulty variant of handleGitHubError: the message is searched as it came
handleGitHubError_caseSensitive(response) ==
  LET message == IF IsSome(response.body) /\ Val(response.body) # <<>>
                   THEN Val(response.body)
                   ELSE <<"GitHub", "API", "error:", "status">>
  IN CASE response.status = 404 -> "NOT_FOUND"
       [] response.status = 401 -> "UNAUTHORIZED"
       [] response.status = 403 ->
            IF includesRateLimit(message) THEN "RATE_LIMIT" ELSE "UNAUTHORIZED"
       [] OTHER -> "UNKNOWN"

\* the code of the StatsError that handleGitHubError throws; response.body
\* is None when response.json() fails, and an absent or empty message leaves
\* the message 'GitHub API error: <status>'
handleGitHubError(response) ==
  LET message == IF IsSome(response.body) /\ Val(response.body) # <<>>
                   THEN Val(response.body)
                   ELSE <<"GitHub", "API", "error:", "status">>
  IN CASE response.status = 404 -> "NOT_FOUND"
       [] response.status = 401 -> "UNAUTHORIZED"
       [] response.status = 403 ->
            IF includesRateLimit(toLowerCase(message)) THEN "RATE_LIMIT"
            ELSE "UNAUTHORIZED"
       [] OTHER -> "UNKNOWN"

\* const { excludeBots = true, excludeMergeCommits = false, perPage = 100 }
excludeBotsOf(options) ==
  IF IsSome(options.excludeBots) THEN Val(options.excludeBots) ELSE TRUE

excludeMergeCommitsOf(options) ==
  IF IsSome(options.excludeMergeCommits) THEN Val(options.excludeMergeCommits) ELSE FALSE

DefaultPerPage == 100

perPageOf(options) == IF IsSome(options.perPage) THEN Val(options.perPage) ELSE DefaultPerPage

\* (ghCommit.parents?.length || 0) > 1
isMergeCommit(gh) == gh.parents > 1

\* the filters of the loop over data: the commit is pushed (the names are
\* compared in lower case; the names of the model are in lower case)
shouldIncludeCommit(gh, options) ==
  /\ ~(excludeBotsOf(options) /\ gh.likelyBot)
  /\ ~(excludeMergeCommitsOf(options) /\ isMergeCommit(gh))
  /\ (IsSome(options.authors) /\ Len(Val(options.authors)) > 0)
       => \E k \in 1..Len(Val(options.authors)) :
            \/ Val(options.authors)[k] = gh.name
            \/ Some(Val(options.authors)[k]) = gh.login

\* the Commit pushed for a commit of the API
transformGitHubCommit(gh) ==
  [sha |-> gh.sha,
   author |-> IF Truthy(gh.login) THEN Val(gh.login) ELSE gh.name,
   authorLogin |-> gh.login,
   date |-> gh.date,
   isMerge |-> isMergeCommit(gh),
   isBot |-> gh.likelyBot]

\* the commits pushed for one page
pushedOf(data, options) ==
  MapSeq(SelectSeq(data, LAMBDA gh : shouldIncludeCommit(gh, options)),
         transformGitHubCommit)

\* JavaScript truthiness of an optional number
TruthyNumber(o) == IsSome(o) /\ Val(o) # 0

\* the locals of fetchCommits before the loop
LoopStart == [page |-> 1, hasMore |-> TRUE, commits |-> <<>>]

\* one iteration of the loop on the data of an OK response
fetchIteration(st, data, options) ==
  IF Len(data) = 0 THEN [st EXCEPT !.hasMore = FALSE]
  ELSE LET pushed == [st EXCEPT !.commits = @ \o pushedOf(data, options)]
       IN IF Len(data) < perPageOf(options)
            THEN [pushed EXCEPT !.hasMore = FALSE]
          ELSE IF TruthyNumber(options.maxPages) /\ st.page >= Val(options.maxPages)
            THEN [pushed EXCEPT !.hasMore = FALSE]
          ELSE [pushed EXCEPT !.page = @ + 1]

\* what the GitHub API lists on the page: per_page commits from the
\* position (page - 1) * per_page on
PageOf(repo, page, perPage) ==
  SubSeq(repo, (page - 1) * perPage + 1, Min(page * perPage, Len(repo)))

\* fetchCommits when every request gets its page: the commits it returns
RECURSIVE fetchLoop(_, _, _)
fetchLoop(st, repo, options) ==
  IF ~st.hasMore THEN st.commits
  ELSE fetchLoop(fetchIteration(st, PageOf(repo, st.page, perPageOf(options)), options),
                 repo, options)

fetchCommits(repo, options) == fetchLoop(LoopStart, repo, options)

\* no fetchCommits call in progress
NoFetch ==
  /\ fetchOptions = None
  /\ server = <<>>
  /\ loop = LoopStart
  /\ requests = <<>>
  /\ outcome = None
  /\ calls = <<>>

----------------------------------------------------------------------------
(* The inputs *)

Authors == {"alice", "bob"}

\* the instant h:m:s of the day-th day after the origin
At(day, h, m, sec) == day * MsPerDay + (h * 60 + m) * MsPerMinute + sec * 1000

\* instants of the commits, all on the day after the origin: 04:50Z (23:50 of
\* the previous day in New York), 05:10Z, 05:55Z, 05:55:01Z and 06:41Z
Times == {At(1, 4, 50, 0), At(1, 5, 10, 0), At(1, 5, 55, 0), At(1, 5, 55, 1),
          At(1, 6, 41, 0)}

\* transformGitHubCommit sets author to the login when the commit has one:
\* alice is a GitHub account, bob is known by name only
LoginOf(author) == IF author = "alice" THEN Some(author) ELSE None

\* sessionTimeoutMin and firstCommitBonusMin: the defaults, and a custom pair
TimeoutAndBonus == {<<45, 15>>, <<30, 0>>}
Timezones == {"UTC", "America/New_York"}

CommitPool ==
  {[author |-> a, authorLogin |-> LoginOf(a), date |-> t] : a \in Authors, t \in Times}

\* the commit lists of length n, each commit with its position as sha
CommitLists(n) ==
  {[i \in 1..n |-> [sha |-> i] @@ f[i]] : f \in [1..n -> CommitPool]}

Configs ==
  {[sessionTimeoutMin |-> tb[1], firstCommitBonusMin |-> tb[2], timezone |-> tz] :
     tb \in TimeoutAndBonus, tz \in Timezones}

----------------------------------------------------------------------------
(* getRepoStats: build sessions, then the three aggregations *)

Init ==
  /\ commits \in UNION {CommitLists(n) : n \in 0..MaxCommits}
  /\ config \in Configs
  /\ sessions = <<>>
  /\ totals = None
  /\ perAuthor = <<>>
  /\ perDay = <<>>
  /\ pc = "commits"
  /\ EmptyCache
  /\ NoFetch

BuildSessions ==
  /\ pc = "commits"
  /\ sessions' = buildSessions(commits, config)
  /\ pc' = "sessions"
  /\ UNCHANGED <<commits, config, totals, perAuthor, perDay>>
  /\ UNCHANGED cacheVars
  /\ UNCHANGED fetchVars

CalculateTotals ==
  /\ pc = "sessions"
  /\ totals' = Some(calculateTotals(sessions))
  /\ pc' = "totals"
  /\ UNCHANGED <<commits, config, sessions, perAuthor, perDay>>
  /\ UNCHANGED cacheVars
  /\ UNCHANGED fetchVars

AggregateByAuthor ==
  /\ pc = "totals"
  /\ perAuthor' = aggregateByAuthor(sessions)
  /\ pc' = "perAuthor"
  /\ UNCHANGED <<commits, config, sessions, totals, perDay>>
  /\ UNCHANGED cacheVars
  /\ UNCHANGED fetchVars

AggregateByDay ==
  /\ pc = "perAuthor"
  /\ perDay' = aggregateByDay(sessions)
  /\ pc' = "done"
  /\ UNCHANGED <<commits, config, sessions, totals, perAuthor>>
  /\ UNCHANGED cacheVars
  /\ UNCHANGED fetchVars

Next == BuildSessions \/ CalculateTotals \/ AggregateByAuthor \/ AggregateByDay

Spec == Init /\ [][Next]_vars

\* buildSessions alone, called on the commit list
NextSessions == BuildSessions

SpecSessions == Init /\ [][NextSessions]_vars

----------------------------------------------------------------------------
(* The aggregation functions called on a session list of the caller *)

MaxSessions == 3

\* the days 2024-01-15, 2024-01-16 and 2024-01-17
Dates == {FormatISODate(<<2024, 1, d>>) : d \in 15..17}

\* a session of one commit lasting 30 minutes and a session of two commits
\* lasting 60 minutes
Shapes ==
  {[times |-> <<At(1, 4, 50, 0)>>, durationMin |-> 30],
   [times |-> <<At(1, 5, 10, 0), At(1, 5, 55, 0)>>, durationMin |-> 60]}

\* the session a caller assembles from commits, a duration and a date
givenSession(author, shape, date) ==
  LET cs == [k \in 1..Len(shape.times) |->
               [sha |-> k, author |-> author, authorLogin |-> LoginOf(author),
                date |-> shape.times[k]]]
  IN [author |-> author,
      authorLogin |-> LoginOf(author),
      commits |-> cs,
      startTime |-> cs[1].date,
      endTime |-> Last(cs).date,
      durationMinutes |-> shape.durationMin * MsPerMinute,
      date |-> date,
      avgMinutesBetweenCommits |-> None,
      maxMinutesBetweenCommits |-> None]

SessionPool == {givenSession(a, sh, d) : a \in Authors, sh \in Shapes, d \in Dates}

SessionLists(n) == [1..n -> SessionPool]

InitAggregate ==
  /\ commits = <<>>
  /\ config = [sessionTimeoutMin |-> 45, firstCommitBonusMin |-> 15, timezone |-> "UTC"]
  /\ sessions \in UNION {SessionLists(n) : n \in 0..MaxSessions}
  /\ totals = None
  /\ perAuthor = <<>>
  /\ perDay = <<>>
  /\ pc = "sessions"
  /\ EmptyCache
  /\ NoFetch

NextAggregate == CalculateTotals \/ AggregateByAuthor \/ AggregateByDay

SpecAggregate == InitAggregate /\ [][NextAggregate]_vars

----------------------------------------------------------------------------
(* buildSessions and the aggregations on commits, or on sessions of the     *)
(* caller, that carry an authorLogin or not                                 *)

MaxLoginCommits == 3

\* alice: no authorLogin, an empty one, and two logins; bob: none, or one
LoginChoices(author) ==
  IF author = "alice" THEN {None, Some(""), Some(author), Some(author \o "-dev")}
  ELSE {None, Some(author)}

\* commits of alice at 05:10Z and 06:41Z, commits of bob at 05:10Z
LoginCommitPool ==
  UNION {{[author |-> a, authorLogin |-> l, date |-> t] :
            l \in LoginChoices(a),
            t \in IF a = "alice" THEN {At(1, 5, 10, 0), At(1, 6, 41, 0)}
                  ELSE {At(1, 5, 10, 0)}} :
         a \in Authors}

LoginCommitLists(n) ==
  {[i \in 1..n |-> [sha |-> i] @@ f[i]] : f \in [1..n -> LoginCommitPool]}

LoginSessionPool ==
  UNION {{[givenSession(a, sh, FormatISODate(<<2024, 1, 16>>)) EXCEPT !.authorLogin = l] :
            sh \in {s \in Shapes : Len(s.times) = 1}, l \in LoginChoices(a)} :
         a \in Authors}

InitLogins ==
  /\ config = [sessionTimeoutMin |-> 45, firstCommitBonusMin |-> 15, timezone |-> "UTC"]
  /\ \/ /\ commits \in UNION {LoginCommitLists(n) : n \in 1..MaxLoginCommits}
        /\ sessions = <<>>
        /\ pc = "commits"
     \/ /\ commits = <<>>
        /\ sessions \in UNION {[1..n -> LoginSessionPool] : n \in 0..MaxLoginCommits}
        /\ pc = "sessions"
  /\ totals = None
  /\ perAuthor = <<>>
  /\ perDay = <<>>
  /\ EmptyCache
  /\ NoFetch

SpecLogins == InitLogins /\ [][Next]_vars

----------------------------------------------------------------------------
(* The aggregation functions called on sessions of one week, each as        *)
(* createSession returns it for its commits                                 *)

\* commit instants and firstCommitBonusMin of the sessions, 2024-01-15 being
\* a Monday:
\*   Monday 09:00, 09:20, 10:00;  Tuesday 09:00, 10:00 (the same duration);
\*   Monday 09:30, 09:40:01.194 (inside the first);  Monday 10:30:20;
\*   Thursday 09:00;  Wednesday 09:00 without bonus (duration 0)
WeekShapes ==
  {[times |-> <<At(0, 9, 0, 0), At(0, 9, 20, 0), At(0, 10, 0, 0)>>, bonusMin |-> 15],
   [times |-> <<At(1, 9, 0, 0), At(1, 10, 0, 0)>>, bonusMin |-> 15],
   [times |-> <<At(0, 9, 30, 0), At(0, 9, 40, 1) + 194>>, bonusMin |-> 15],
   [times |-> <<At(0, 10, 30, 20)>>, bonusMin |-> 15],
   [times |-> <<At(3, 9, 0, 0)>>, bonusMin |-> 15],
   [times |-> <<At(2, 9, 0, 0)>>, bonusMin |-> 0]}

builtSession(author, shape) ==
  createSession([k \in 1..Len(shape.times) |->
                   [sha |-> k, author |-> author, authorLogin |-> LoginOf(author),
                    date |-> shape.times[k]]],
                author, LoginOf(author), shape.bonusMin, "UTC")

WeekPool == {builtSession(a, sh) : a \in Authors, sh \in WeekShapes}

InitWeek ==
  /\ commits = <<>>
  /\ config = [sessionTimeoutMin |-> 45, firstCommitBonusMin |-> 15, timezone |-> "UTC"]
  /\ sessions \in UNION {[1..n -> WeekPool] : n \in 0..MaxSessions}
  /\ totals = None
  /\ perAuthor = <<>>
  /\ perDay = <<>>
  /\ pc = "sessions"
  /\ EmptyCache
  /\ NoFetch

NextWeek == CalculateTotals \/ AggregateByAuthor

SpecWeek == InitWeek /\ [][NextWeek]_vars

----------------------------------------------------------------------------
(* The memory cache under calls of getFromCache, setInCache and clearCache  *)
(* as time passes                                                           *)

\* the clock advances in steps of ten minutes, MaxTicks times at most
MaxTicks == 7

ClockStepMs == 10 * MsPerMinute

CacheKeys == {"owner/repo|UTC", "owner/repo|America/New_York"}

\* two RepoStats results
CacheData == {"stats1", "stats2"}

\* the cache fields of StatsOptions: {}, cache 'none', and cache 'memory'
\* with no cacheTTLms, with 10 minutes and with 30 minutes
CacheOptions ==
  {[cache |-> None, cacheTTLms |-> None],
   [cache |-> Some("none"), cacheTTLms |-> None]}
  \cup {[cache |-> Some("memory"), cacheTTLms |-> ttl] :
          ttl \in {None, Some(10 * MsPerMinute), Some(30 * MsPerMinute)}}

InitCache ==
  /\ commits = <<>>
  /\ config = [sessionTimeoutMin |-> 45, firstCommitBonusMin |-> 15, timezone |-> "UTC"]
  /\ sessions = <<>>
  /\ totals = None
  /\ perAuthor = <<>>
  /\ perDay = <<>>
  /\ pc = "cache"
  /\ EmptyCache
  /\ NoFetch

SetInCache(key, data, options) ==
  /\ cache' = setInCache(cache, key, data, options, now)
  /\ stored' = IF options.cache = Some("none") THEN stored
               ELSE [k \in DOMAIN stored \cup {key} |->
                       IF k = key THEN [data |-> data, at |-> now, expired |-> FALSE]
                       ELSE stored[k]]
  /\ returned' = None
  /\ UNCHANGED now
  /\ UNCHANGED statsVars
  /\ UNCHANGED fetchVars

\* the history notes a read that finds the entry of the key older than the
\* ttl of the read
GetFromCache(key, options) ==
  LET got == getFromCache(cache, key, options, now)
  IN /\ cache' = got.cache
     /\ returned' = Some([key |-> key, options |-> options, result |-> got.result])
     /\ stored' = IF /\ options.cache # Some("none")
                     /\ key \in DOMAIN stored
                     /\ now - stored[key].at > ttlMsOf(options)
                    THEN [stored EXCEPT ![key].expired = TRUE]
                    ELSE stored
     /\ UNCHANGED now
     /\ UNCHANGED statsVars
     /\ UNCHANGED fetchVars

ClearCache ==
  /\ cache' = clearCache
  /\ stored' = NoEntries
  /\ returned' = None
  /\ UNCHANGED now
  /\ UNCHANGED statsVars
  /\ UNCHANGED fetchVars

\* time passes between two calls
Tick ==
  /\ now < MaxTicks * ClockStepMs
  /\ now' = now + ClockStepMs
  /\ returned' = None
  /\ UNCHANGED <<cache, stored>>
  /\ UNCHANGED statsVars
  /\ UNCHANGED fetchVars

NextCache ==
  \/ \E key \in CacheKeys, data \in CacheData, options \in CacheOptions :
       SetInCache(key, data, options)
  \/ \E key \in CacheKeys, options \in CacheOptions : GetFromCache(key, options)
  \/ ClearCache
  \/ Tick

SpecCache == InitCache /\ [][NextCache]_vars

----------------------------------------------------------------------------
(* fetchCommits, one request at a time, against a repository of the GitHub  *)
(* API that answers every request with the page asked for, with an error    *)
(* status, or not at all                                                    *)

\* the repository holds MaxRepoCommits commits at most
MaxRepoCommits == 4

\* the i-th commit the API lists: alice and bob in turn, the third by a bot
RawCommit(i) ==
  [sha |-> i,
   name |-> IF i % 2 = 1 THEN "alice" ELSE "bob",
   login |-> IF i = 3 THEN Some("dependabot[bot]") ELSE LoginOf(IF i % 2 = 1 THEN "alice" ELSE "bob"),
   date |-> At(1, 5, 0, 0) - i * MsPerMinute,
   parents |-> 1,
   likelyBot |-> i = 3]

Repository(n) == [i \in 1..n |-> RawCommit(i)]

\* the paging and filter fields of StatsOptions
FetchOptions ==
  {[perPage |-> pp, maxPages |-> mp, excludeBots |-> eb,
    excludeMergeCommits |-> None, authors |-> None] :
     pp \in {None, Some(1), Some(2)},
     mp \in {None, Some(0), Some(1), Some(2)},
     eb \in {None, Some(FALSE)}}

\* the bodies of the error responses: not JSON, a rate-limit message, another
ErrorBodies ==
  {None, Some(<<"API", "Rate", "Limit", "exceeded">>), Some(<<"Forbidden">>)}

ErrorResponses ==
  {[ok |-> FALSE, status |-> st, body |-> b] : st \in {401, 403, 404, 500}, b \in ErrorBodies}

InitFetch ==
  /\ commits = <<>>
  /\ config = [sessionTimeoutMin |-> 45, firstCommitBonusMin |-> 15, timezone |-> "UTC"]
  /\ sessions = <<>>
  /\ totals = None
  /\ perAuthor = <<>>
  /\ perDay = <<>>
  /\ pc = "fetch"
  /\ EmptyCache
  /\ fetchOptions \in {Some(o) : o \in FetchOptions}
  /\ server \in {Repository(n) : n \in 0..MaxRepoCommits}
  /\ loop = LoopStart
  /\ requests = <<>>
  /\ outcome = None
  /\ calls = <<>>

Fetching == outcome = None /\ loop.hasMore

\* the request gets an OK response with the page: one iteration, and the
\* return when the loop ends
PageArrives ==
  /\ Fetching
  /\ LET data == PageOf(server, loop.page, perPageOf(Val(fetchOptions)))
         after == fetchIteration(loop, data, Val(fetchOptions))
     IN /\ loop' = after
        /\ requests' = Append(requests, loop.page)
        /\ outcome' = IF after.hasMore THEN None
                      ELSE Some([kind |-> "returned", commits |-> after.commits])
  /\ UNCHANGED <<fetchOptions, server, calls>>
  /\ UNCHANGED statsVars
  /\ UNCHANGED cacheVars

\* the request gets a response that is not OK: handleGitHubError throws a
\* StatsError, which the catch block throws again
ErrorArrives(response) ==
  /\ Fetching
  /\ requests' = Append(requests, loop.page)
  /\ outcome' = Some([kind |-> "thrown", code |-> handleGitHubError(response),
                      response |-> Some(response)])
  /\ UNCHANGED <<fetchOptions, server, loop, calls>>
  /\ UNCHANGED statsVars
  /\ UNCHANGED cacheVars

\* fetchImpl rejects: the catch block wraps the error
FetchFails ==
  /\ Fetching
  /\ requests' = Append(requests, loop.page)
  /\ outcome' = Some([kind |-> "thrown", code |-> "NETWORK", response |-> None])
  /\ UNCHANGED <<fetchOptions, server, loop, calls>>
  /\ UNCHANGED statsVars
  /\ UNCHANGED cacheVars

NextFetch ==
  \/ PageArrives
  \/ \E response \in ErrorResponses : ErrorArrives(response)
  \/ FetchFails

SpecFetch == InitFetch /\ [][NextFetch]_vars

----------------------------------------------------------------------------
(* getRepoStats, called several times by one process as time passes        *)

\* getRepoStats is called MaxCalls times at most
MaxCalls == 2

\* the sessionTimeoutMin ?? 45, firstCommitBonusMin ?? 15, timezone ?? 'UTC'
configOf(options) ==
  [sessionTimeoutMin |->
     IF IsSome(options.sessionTimeoutMin) THEN Val(options.sessionTimeoutMin) ELSE 45,
   firstCommitBonusMin |->
     IF IsSome(options.firstCommitBonusMin) THEN Val(options.firstCommitBonusMin) ELSE 15,
   timezone |-> IF IsSome(options.timezone) THEN Val(options.timezone) ELSE "UTC"]

\* the RepoStats built from the commits fetched
resultOf(repoString, options, cs) ==
  LET ss == buildSessions(cs, configOf(options))
  IN [repo |-> repoString,
      period |-> [since |-> options.since, until |-> options.until],
      config |-> configOf(options),
      totals |-> calculateTotals(ss),
      perAuthor |-> aggregateByAuthor(ss),
      perDay |-> aggregateByDay(ss)]

\* getRepoStats at the instant t when the fetch succeeds, for the parsed
\* input: the result, the cache after the call, and whether it fetched;
\* repository is what GitHub lists for owner/repo
getRepoStats(c, input, options, repository, t) ==
  LET cacheKey == generateCacheKey(input.owner, input.repo, options)
      got == getFromCache(c, cacheKey, options, t)
  IN IF IsSome(got.result)
       THEN [result |-> Val(got.result), cache |-> got.cache, fetched |-> FALSE]
     ELSE LET result == resultOf(input.owner \o "/" \o input.repo, options,
                                 fetchCommits(repository, options))
          IN [result |-> result,
              cache |-> setInCache(got.cache, cacheKey, result, options, t),
              fetched |-> TRUE]

\* the repositories asked for, as parseRepoInput returns them
RepoInputs == {[owner |-> "owner", repo |-> r] : r \in {"repo", "other"}}

\* StatsOptions with no option given
NoOptions ==
  [since |-> None, until |-> None, authors |-> None, excludeBots |-> None,
   excludeMergeCommits |-> None, sessionTimeoutMin |-> None,
   firstCommitBonusMin |-> None, timezone |-> None, perPage |-> None,
   maxPages |-> None, cache |-> None, cacheTTLms |-> None]

\* the options of the calls: none, and one or two options given
CallOptions ==
  {NoOptions,
   [NoOptions EXCEPT !.perPage = Some(2)],
   [NoOptions EXCEPT !.perPage = Some(2), !.maxPages = Some(1)],
   [NoOptions EXCEPT !.excludeBots = Some(FALSE)],
   [NoOptions EXCEPT !.excludeBots = Some(TRUE)],
   [NoOptions EXCEPT !.authors = Some(<<"alice">>)],
   [NoOptions EXCEPT !.sessionTimeoutMin = Some(30), !.firstCommitBonusMin = Some(0)],
   [NoOptions EXCEPT !.timezone = Some("America/New_York")],
   [NoOptions EXCEPT !.cache = Some("none")],
   [NoOptions EXCEPT !.cache = Some("memory"), !.cacheTTLms = Some(10 * MsPerMinute)]}

InitRepoStats ==
  /\ commits = <<>>
  /\ config = [sessionTimeoutMin |-> 45, firstCommitBonusMin |-> 15, timezone |-> "UTC"]
  /\ sessions = <<>>
  /\ totals = None
  /\ perAuthor = <<>>
  /\ perDay = <<>>
  /\ pc = "calls"
  /\ EmptyCache
  /\ fetchOptions = None
  /\ server = [input \in RepoInputs |->
                 Repository(IF input.repo = "repo" THEN MaxRepoCommits ELSE 1)]
  /\ loop = LoopStart
  /\ requests = <<>>
  /\ outcome = None
  /\ calls = <<>>

\* a call that returns: from the cache, or after a fetch that succeeds
GetRepoStats(input, options) ==
  /\ Len(calls) < MaxCalls
  /\ LET call == getRepoStats(cache, input, options, server[input], now)
     IN /\ cache' = call.cache
        /\ returned' = Some(call.result)
        /\ calls' = Append(calls, [input |-> input, options |-> options, at |-> now,
                                   fetched |-> call.fetched, failed |-> FALSE])
  /\ UNCHANGED <<now, stored>>
  /\ UNCHANGED <<fetchOptions, server, loop, requests, outcome>>
  /\ UNCHANGED statsVars

\* a call that finds nothing in the cache and whose fetch throws
GetRepoStatsFails(input, options) ==
  /\ Len(calls) < MaxCalls
  /\ LET got == getFromCache(cache, generateCacheKey(input.owner, input.repo, options),
                             options, now)
     IN /\ got.result = None
        /\ cache' = got.cache
  /\ returned' = None
  /\ calls' = Append(calls, [input |-> input, options |-> options, at |-> now,
                             fetched |-> TRUE, failed |-> TRUE])
  /\ UNCHANGED <<now, stored>>
  /\ UNCHANGED <<fetchOptions, server, loop, requests, outcome>>
  /\ UNCHANGED statsVars

NextRepoStats ==
  \/ \E input \in RepoInputs, options \in CallOptions : GetRepoStats(input, options)
  \/ \E input \in RepoInputs, options \in CallOptions : GetRepoStatsFails(input, options)
  \/ Tick

SpecRepoStats == InitRepoStats /\ [][NextRepoStats]_vars

----------------------------------------------------------------------------
(* Vocabulary of the properties *)

\* buildSessions has returned
Built == pc = "sessions"

SessionIdx == 1..Len(sessions)
CommitIdx == 1..Len(commits)

Shas(session) == {session.commits[k].sha : k \in 1..Len(session.commits)}

\* the two commits are in one session
Together(a, b) == \E i \in SessionIdx : {a.sha, b.sha} \subseteq Shas(sessions[i])

\* a and b are commits of one author that follow each other in time: no
\* commit of the author lies strictly between them
AdjacentCommits(a, b) ==
  /\ a.sha # b.sha
  /\ a.author = b.author
  /\ a.date <= b.date
  /\ ~\E k \in CommitIdx : /\ commits[k].author = a.author
                           /\ a.date < commits[k].date
                           /\ commits[k].date < b.date

TimeoutMs == config.sessionTimeoutMin * MsPerMinute
BonusMs == config.firstCommitBonusMin * MsPerMinute

\* h is v rounded to the nearest multiple of unit, halves up, counted in units
IsRounded(h, v, unit) == 2 * h * unit - unit <= 2 * v /\ 2 * v < 2 * h * unit + unit

----------------------------------------------------------------------------
(* C1: every session returned by buildSessions holds commits of one author, *)
(* the session's author, in ascending timestamp order, and startTime and    *)
(* endTime are the timestamps of its first and last commit.                 *)

C1_OneAuthorAscending ==
  Built => \A i \in SessionIdx :
    LET s == sessions[i] IN
      /\ Len(s.commits) >= 1
      /\ \A k \in 1..Len(s.commits) : s.commits[k].author = s.author
      /\ \A k \in 1..(Len(s.commits) - 1) : s.commits[k].date <= s.commits[k + 1].date
      /\ s.startTime = s.commits[1].date
      /\ s.endTime = Last(s.commits).date

\* interleaved authors, and a session whose commits arrived latest first
C1_Witness ==
  /\ pc = "sessions"
  /\ Len(commits) = 3
  /\ commits[1].author # commits[2].author
  /\ \E i \in SessionIdx :
       /\ Len(sessions[i].commits) = 2
       /\ sessions[i].commits[1].sha > sessions[i].commits[2].sha
       /\ sessions[i].startTime < sessions[i].endTime

----------------------------------------------------------------------------
(* C2: two commits of one author that are adjacent in the author's          *)
(* timestamp order are in the same session if and only if their gap is at   *)
(* most sessionTimeoutMin minutes (inclusive boundary, zero gap included).  *)

C2_SameSessionIffWithinTimeout ==
  Built => \A x, y \in CommitIdx :
    AdjacentCommits(commits[x], commits[y]) =>
      (Together(commits[x], commits[y])
         <=> commits[y].date - commits[x].date <= TimeoutMs)

\* a gap of exactly the timeout kept together, a gap of one minute more split
C2_Witness ==
  /\ pc = "sessions"
  /\ \E x, y, z \in CommitIdx :
       /\ AdjacentCommits(commits[x], commits[y])
       /\ AdjacentCommits(commits[y], commits[z])
       /\ commits[y].date - commits[x].date = TimeoutMs
       /\ commits[z].date - commits[y].date = TimeoutMs + MsPerMinute
       /\ Together(commits[x], commits[y])
       /\ ~Together(commits[y], commits[z])

----------------------------------------------------------------------------
(* C3: partition maximality: for sessions of one author adjacent in start   *)
(* time order, the gap from the last commit of the earlier one to the first *)
(* commit of the later one is strictly greater than sessionTimeoutMin.      *)

AdjacentSessions(i, j) ==
  /\ i # j
  /\ sessions[i].author = sessions[j].author
  /\ sessions[i].startTime <= sessions[j].startTime
  /\ ~\E k \in SessionIdx : /\ sessions[k].author = sessions[i].author
                            /\ sessions[i].startTime < sessions[k].startTime
                            /\ sessions[k].startTime < sessions[j].startTime

C3_PartitionMaximal ==
  Built => \A i, j \in SessionIdx :
    AdjacentSessions(i, j) =>
      sessions[j].commits[1].date - Last(sessions[i].commits).date > TimeoutMs

\* an author with a session of two commits followed by another session
C3_Witness ==
  /\ pc = "sessions"
  /\ \E i, j \in SessionIdx :
       /\ AdjacentSessions(i, j)
       /\ Len(sessions[i].commits) = 2
       /\ sessions[i].startTime < sessions[i].endTime

----------------------------------------------------------------------------
(* C4: durationMinutes is firstCommitBonusMin for a session of one commit   *)
(* and (endTime - startTime in minutes) + firstCommitBonusMin otherwise:    *)
(* the bonus is added once whatever the number of commits.                  *)

C4_Duration ==
  Built => \A i \in SessionIdx :
    LET s == sessions[i] IN
      IF Len(s.commits) = 1
        THEN s.durationMinutes = BonusMs
        ELSE s.durationMinutes = (s.endTime - s.startTime) + BonusMs

\* a session of three commits and a non-zero bonus
C4_Witness ==
  /\ pc = "sessions"
  /\ config.firstCommitBonusMin > 0
  /\ \E i \in SessionIdx :
       /\ Len(sessions[i].commits) = 3
       /\ sessions[i].durationMinutes > BonusMs

----------------------------------------------------------------------------
(* C5: buildSessions does not depend on the arrival order of the commits:   *)
(* every permutation of the input gives the same partition of the commits   *)
(* into sessions, with the same author, startTime, endTime, durationMinutes *)
(* and date for each session.                                               *)

\* the bijections of 1..n
ArrivalOrders(n) == Permutations(1..n)

Permuted(cs, p) == [i \in 1..Len(cs) |-> cs[p[i]]]

SessionKey(s) ==
  [author |-> s.author, shas |-> Shas(s), startTime |-> s.startTime,
   endTime |-> s.endTime, durationMinutes |-> s.durationMinutes, date |-> s.date]

SessionKeys(ss) == {SessionKey(ss[i]) : i \in 1..Len(ss)}

C5_ArrivalOrderIndependent ==
  pc = "sessions" => \A p \in ArrivalOrders(Len(commits)) :
    LET other == buildSessions(Permuted(commits, p), config) IN
      /\ SessionKeys(other) = SessionKeys(sessions)
      /\ Len(other) = Len(sessions)

\* three commits of one author that arrived out of order and split in two
C5_Witness ==
  /\ pc = "sessions"
  /\ Len(commits) = 3
  /\ commits[1].date > commits[3].date
  /\ commits[3].date > commits[2].date
  /\ Len(sessions) = 2
  /\ sessions[1].author = sessions[2].author

----------------------------------------------------------------------------
(* C6: the date of a session is the calendar day on which its startTime     *)
(* falls in the configured timezone (not the UTC day, not the day of its    *)
(* endTime); commits that cross local midnight with gaps within the timeout *)
(* stay in one session.                                                     *)

\* the day named by the date string contains the instant, in the zone
DayContains(date, instant, timezone) ==
  LET local == instant + ZoneOffsetMs(timezone) IN
    /\ ParseISODate(date) <= local
    /\ local < ParseISODate(date) + MsPerDay

C6_DateIsLocalStartDay ==
  Built =>
    /\ \A i \in SessionIdx :
         /\ Len(sessions[i].date) = 10
         /\ DayContains(sessions[i].date, sessions[i].startTime, config.timezone)
    /\ \A x, y \in CommitIdx :
         (/\ AdjacentCommits(commits[x], commits[y])
          /\ commits[y].date - commits[x].date <= TimeoutMs
          /\ LocalDay(commits[x].date, config.timezone)
               # LocalDay(commits[y].date, config.timezone))
           => Together(commits[x], commits[y])

\* one session from 23:50 to 00:10 New York time, dated 2024-01-15 although
\* both commits are on 2024-01-16 in UTC
C6_Witness ==
  /\ pc = "sessions"
  /\ config.timezone = "America/New_York"
  /\ \E i \in SessionIdx :
       /\ sessions[i].startTime = At(1, 4, 50, 0)
       /\ sessions[i].endTime = At(1, 5, 10, 0)
       /\ sessions[i].date = <<50, 48, 50, 52, 45, 48, 49, 45, 49, 53>>
       /\ ~DayContains(sessions[i].date, sessions[i].startTime, "UTC")
       /\ ~DayContains(sessions[i].date, sessions[i].endTime, config.timezone)

----------------------------------------------------------------------------
(* C7: for a session of n >= 2 commits avgMinutesBetweenCommits is the mean *)
(* of the n - 1 gaps between chronologically adjacent commits and           *)
(* maxMinutesBetweenCommits the largest of them, each rounded to 2          *)
(* decimals; for a session of one commit both are undefined, not 0.         *)

GapAfter(s, k) == s.commits[k + 1].date - s.commits[k].date

C7_GapMetrics ==
  Built => \A i \in SessionIdx :
    LET s == sessions[i]
        n == Len(s.commits)
    IN IF n = 1
         THEN /\ s.avgMinutesBetweenCommits = None
              /\ s.maxMinutesBetweenCommits = None
         ELSE /\ IsSome(s.avgMinutesBetweenCommits)
              /\ IsSome(s.maxMinutesBetweenCommits)
              \* the sum of the gaps is endTime - startTime
              /\ IsRounded(Val(s.avgMinutesBetweenCommits),
                           s.endTime - s.startTime,
                           (n - 1) * MsPerCentiMinute)
              /\ \E k \in 1..(n - 1) :
                   /\ \A l \in 1..(n - 1) : GapAfter(s, l) <= GapAfter(s, k)
                   /\ IsRounded(Val(s.maxMinutesBetweenCommits), GapAfter(s, k),
                                MsPerCentiMinute)

\* gaps of 45 minutes and 1 second: mean 22.508.. -> 22.51, largest 45
C7_Witness ==
  /\ pc = "sessions"
  /\ \E i \in SessionIdx :
       /\ Len(sessions[i].commits) = 3
       /\ sessions[i].avgMinutesBetweenCommits = Some(2251)
       /\ sessions[i].maxMinutesBetweenCommits = Some(4500)

----------------------------------------------------------------------------
(* C8: aggregateByAuthor returns one record per distinct session author, in *)
(* descending order of totalHours; records with equal totalHours keep the   *)
(* order in which their authors are first met in the session list.          *)

AuthorsDone == pc \in {"perAuthor", "done"}

\* position of the first session of the author in the session list
FirstSessionOf(author) ==
  CHOOSE i \in SessionIdx :
    /\ sessions[i].author = author
    /\ \A j \in 1..(i - 1) : sessions[j].author # author

C8_AuthorsByHoursDescending ==
  AuthorsDone =>
    /\ {perAuthor[i].author : i \in 1..Len(perAuthor)}
         = {sessions[j].author : j \in SessionIdx}
    /\ \A i, j \in 1..Len(perAuthor) :
         i < j =>
           /\ perAuthor[i].author # perAuthor[j].author
           /\ perAuthor[i].totalHours >= perAuthor[j].totalHours
           /\ perAuthor[i].totalHours = perAuthor[j].totalHours
                => FirstSessionOf(perAuthor[i].author)
                     < FirstSessionOf(perAuthor[j].author)

\* the author met second has more hours and is returned first
C8_Witness ==
  /\ pc = "perAuthor"
  /\ Len(perAuthor) = 2
  /\ perAuthor[1].totalHours > perAuthor[2].totalHours
  /\ perAuthor[1].author # sessions[1].author

----------------------------------------------------------------------------
(* C9: aggregateByDay returns one record per distinct session date, in      *)
(* ascending order of the date string whatever the order of the sessions;   *)
(* a session counts under its date field, not under a day re-derived from   *)
(* its timestamps.                                                          *)

DaysDone == pc = "done"

SessionsDated(date) == {i \in SessionIdx : sessions[i].date = date}

C9_DaysAscending ==
  DaysDone =>
    /\ {perDay[i].date : i \in 1..Len(perDay)} = {sessions[j].date : j \in SessionIdx}
    /\ \A i, j \in 1..Len(perDay) : i < j => StrLess(perDay[i].date, perDay[j].date)
    /\ \A i \in 1..Len(perDay) :
         perDay[i].sessionsCount = Cardinality(SessionsDated(perDay[i].date))

\* the first session of the list is dated after the second, and the dates
\* are not the UTC days of the sessions
C9_Witness ==
  /\ pc = "done"
  /\ Len(perDay) = 2
  /\ Len(sessions) >= 2
  /\ StrLess(sessions[2].date, sessions[1].date)
  /\ perDay[1].date = sessions[2].date
  /\ ~DayContains(sessions[2].date, sessions[2].startTime, "UTC")

----------------------------------------------------------------------------
(* C10: in every record of aggregateByDay the authors list holds each       *)
(* author with a session on that date exactly once, in order of first       *)
(* appearance among the sessions of that day.                               *)

\* position of the first session of the author on the date
FirstSessionOn(author, date) ==
  CHOOSE i \in SessionsDated(date) :
    /\ sessions[i].author = author
    /\ \A j \in SessionsDated(date) : j < i => sessions[j].author # author

C10_DayAuthorsUnique ==
  DaysDone => \A d \in 1..Len(perDay) :
    LET r == perDay[d] IN
      /\ Range(r.authors) = {sessions[i].author : i \in SessionsDated(r.date)}
      /\ \A i, j \in 1..Len(r.authors) :
           i < j =>
             /\ r.authors[i] # r.authors[j]
             /\ FirstSessionOn(r.authors[i], r.date) < FirstSessionOn(r.authors[j], r.date)

\* a day with two sessions of one author and one session of another
C10_Witness ==
  /\ pc = "done"
  /\ \E d \in 1..Len(perDay) :
       /\ perDay[d].sessionsCount = 3
       /\ Len(perDay[d].authors) = 2

----------------------------------------------------------------------------
(* C11: for the empty session list calculateTotals returns 0 in totalHours, *)
(* sessionsCount, devDays, totalCommits, avgCommitsPerSession,              *)
(* avgSessionsPerDay, longestSessionHours, avgSessionHours and              *)
(* longestStreakDays, and undefined in mostProductiveDayOfWeek and          *)
(* minTimeBetweenSessionsMin; every numeric field is a finite number.       *)

TotalsDone == pc # "sessions" /\ pc # "commits" /\ IsSome(totals)

NumericFields ==
  {"totalHours", "sessionsCount", "devDays", "totalCommits", "avgCommitsPerSession",
   "avgSessionsPerDay", "longestSessionHours", "avgSessionHours", "longestStreakDays"}

C11_EmptyTotals ==
  (TotalsDone /\ sessions = <<>>) =>
    /\ \A f \in NumericFields : Val(totals)[f] = 0
    /\ Val(totals).mostProductiveDayOfWeek = None
    /\ Val(totals).minTimeBetweenSessionsMin = None

\* calculateTotals has returned for the empty list
C11_Witness == pc = "totals" /\ sessions = <<>> /\ Val(totals).sessionsCount = 0

----------------------------------------------------------------------------
(* C12: for a non-empty session list mostProductiveDayOfWeek names the      *)
(* weekday, taken from the sessions' startTime, with the highest summed     *)
(* duration.  As claimed: of several weekdays tied for the highest sum, the *)
(* first in the order Sunday, Monday, ..., Saturday is returned.  As the    *)
(* code has it: the tied weekday whose first session comes earliest in the  *)
(* list is returned, and Sunday when no weekday has a positive sum.         *)

Weekdays == 0..6

\* the summed durations of the sessions that start on the weekday
HoursOn(w) ==
  SumSeq(MapSeq(SelectSeq(sessions, LAMBDA x : getDay(x.startTime) = w),
                LAMBDA x : x.durationMinutes))

MaxHours == CHOOSE h \in {HoursOn(w) : w \in Weekdays} : \A w \in Weekdays : HoursOn(w) <= h

BestDays == {w \in Weekdays : HoursOn(w) = MaxHours}

\* position of the first session that starts on the weekday
FirstSessionStarting(w) ==
  CHOOSE i \in SessionIdx :
    /\ getDay(sessions[i].startTime) = w
    /\ \A j \in 1..(i - 1) : getDay(sessions[j].startTime) # w

\* the claim as stated: the scan runs over the buckets Sunday to Saturday
C12_SundayToSaturdayScan ==
  (TotalsDone /\ sessions # <<>>) =>
    Val(totals).mostProductiveDayOfWeek
      = Some(dayNames[(CHOOSE w \in BestDays : \A v \in BestDays : w <= v) + 1])

C12_MostProductiveDay ==
  (TotalsDone /\ sessions # <<>>) =>
    \E d \in Weekdays :
      /\ Val(totals).mostProductiveDayOfWeek = Some(dayNames[d + 1])
      /\ IF MaxHours > 0
           THEN /\ d \in BestDays
                /\ \A w \in BestDays \ {d} :
                     FirstSessionStarting(d) < FirstSessionStarting(w)
           ELSE d = 0

\* a Tuesday session listed before a Monday session of the same duration
C12_Witness ==
  /\ pc = "totals"
  /\ Len(sessions) = 2
  /\ getDay(sessions[1].startTime) = 2
  /\ getDay(sessions[2].startTime) = 1
  /\ BestDays = {1, 2}
  /\ Val(totals).mostProductiveDayOfWeek = Some("Tuesday")

----------------------------------------------------------------------------
(* C13: longestStreakDays is the length of the longest run of calendar      *)
(* days, each the day after the one before, among the distinct date values  *)
(* of the sessions: 0 without sessions, at least 1 otherwise, and a gap of  *)
(* two or more days ends a run.                                             *)

\* the number of days from the origin of the model to the date
DayNumberOf(date) ==
  CHOOSE n \in 0..13 : FormatISODate(CivilFromDays(EpochDay + n)) = date

DaysWorked == {DayNumberOf(sessions[i].date) : i \in SessionIdx}

\* the k days from d on are all days with a session
RunFrom(d, k) == \A j \in 0..(k - 1) : d + j \in DaysWorked

LongestRun ==
  CHOOSE k \in 0..Cardinality(DaysWorked) :
    /\ k > 0 => \E d \in DaysWorked : RunFrom(d, k)
    /\ \A l \in (k + 1)..Cardinality(DaysWorked) : ~\E d \in DaysWorked : RunFrom(d, l)

C13_LongestStreak ==
  TotalsDone =>
    /\ Val(totals).longestStreakDays = LongestRun
    /\ sessions = <<>> => Val(totals).longestStreakDays = 0
    /\ sessions # <<>> => Val(totals).longestStreakDays >= 1

\* Thursday, Tuesday, Monday in this order: a run of two days, then a gap of
\* two days
C13_Witness ==
  /\ pc = "totals"
  /\ Len(sessions) = 3
  /\ DayNumberOf(sessions[1].date) = 3
  /\ DayNumberOf(sessions[2].date) = 1
  /\ DayNumberOf(sessions[3].date) = 0
  /\ Val(totals).longestStreakDays = 2

----------------------------------------------------------------------------
(* C14: minTimeBetweenSessionsMin is the least strictly positive value of   *)
(* (startTime of the next session - endTime of the previous one), in        *)
(* minutes rounded to two decimals, over the pairs of sessions of one       *)
(* author that are adjacent when the author's sessions are ordered by       *)
(* endTime; sessions of different authors are never paired, and the value   *)
(* is undefined when no pair has a positive gap.                            *)

\* the number of sessions of the author of session i that come before it in
\* endTime order, sessions with equal endTime in list order
EndRank(i) ==
  Cardinality({k \in SessionIdx :
                 /\ sessions[k].author = sessions[i].author
                 /\ \/ sessions[k].endTime < sessions[i].endTime
                    \/ sessions[k].endTime = sessions[i].endTime /\ k < i})

\* session j follows session i among the sessions of their author
FollowsByEnd(i, j) ==
  sessions[i].author = sessions[j].author /\ EndRank(j) = EndRank(i) + 1

SessionGaps ==
  {sessions[p[2]].startTime - sessions[p[1]].endTime :
     p \in {q \in SessionIdx \X SessionIdx :
              /\ FollowsByEnd(q[1], q[2])
              /\ sessions[q[2]].startTime - sessions[q[1]].endTime > 0}}

C14_MinTimeBetweenSessions ==
  TotalsDone =>
    LET min == Val(totals).minTimeBetweenSessionsMin
    IN IF SessionGaps = {} THEN min = None
       ELSE /\ IsSome(min)
            /\ IsRounded(Val(min), CHOOSE g \in SessionGaps : \A h \in SessionGaps : g <= h,
                         MsPerCentiMinute)

\* two sessions of one author 50 min 18.806 s apart, and a session of the
\* other author that ends between them, 30 min 20 s before the last: 50.31
C14_Witness ==
  /\ pc = "totals"
  /\ Len(sessions) = 3
  /\ sessions[1].author = sessions[3].author
  /\ sessions[2].author # sessions[1].author
  /\ sessions[1].endTime < sessions[2].endTime
  /\ sessions[2].endTime < sessions[3].startTime
  /\ sessions[3].startTime - sessions[2].endTime = 30 * MsPerMinute + 20000
  /\ Val(totals).minTimeBetweenSessionsMin = Some(5031)

----------------------------------------------------------------------------
(* C15: the avgMinutesBetweenCommits of a session list is the mean of the   *)
(* sessions' averages weighted by their numbers of gaps: the sum over the   *)
(* sessions that report an average of average x (commits - 1), divided by   *)
(* the sum of (commits - 1) over them, rounded to two decimals.  It is      *)
(* computed from the rounded averages of the sessions, not from the commit  *)
(* instants, and is not the plain mean of the averages.                     *)

Reporting == SelectSeq(sessions, LAMBDA x : IsSome(x.avgMinutesBetweenCommits))

GapCount == SumSeq(MapSeq(Reporting, LAMBDA x : Len(x.commits) - 1))

\* sum of average x (commits - 1), in hundredths of a minute
WeightedAverages ==
  SumSeq(MapSeq(Reporting,
                LAMBDA x : Val(x.avgMinutesBetweenCommits) * (Len(x.commits) - 1)))

C15_WeightedAverageGap ==
  (TotalsDone /\ GapCount > 0) =>
    /\ IsSome(Val(totals).avgMinutesBetweenCommits)
    /\ IsRounded(Val(Val(totals).avgMinutesBetweenCommits), WeightedAverages, GapCount)

\* the plain mean of the averages, in hundredths
MeanOfAverages ==
  RoundDiv(SumSeq(MapSeq(Reporting, LAMBDA x : Val(x.avgMinutesBetweenCommits))),
           Len(Reporting))

\* the mean of the gaps between the commits themselves, in hundredths
MeanOfCommitGaps ==
  RoundDiv(SumSeq(MapSeq(Reporting, LAMBDA x : SumSeq(gapsOf(x.commits)))),
           GapCount * MsPerCentiMinute)

\* sessions of 3, 2 and 2 commits with averages 30, 60 and 10.02 (10.0199
\* before rounding): 32.51, where the plain mean is 33.34 and the mean of
\* the gaps themselves 32.50
C15_Witness ==
  /\ pc = "totals"
  /\ Len(Reporting) = 3
  /\ GapCount = 4
  /\ Val(totals).avgMinutesBetweenCommits = Some(3251)
  /\ MeanOfAverages = 3334
  /\ MeanOfCommitGaps = 3250

----------------------------------------------------------------------------
(* C16: when at least one session has two or more commits, the              *)
(* maxMinutesBetweenCommits of the list is the largest                      *)
(* maxMinutesBetweenCommits of its sessions and avgMinutesBetweenCommits is *)
(* defined too; when every session has a single commit both are undefined.  *)

MultiCommit == {i \in SessionIdx : Len(sessions[i].commits) >= 2}

SessionMaxGaps ==
  {Val(sessions[i].maxMinutesBetweenCommits) :
     i \in {j \in SessionIdx : IsSome(sessions[j].maxMinutesBetweenCommits)}}

C16_GapsDefinedTogether ==
  TotalsDone =>
    IF MultiCommit # {}
      THEN /\ IsSome(Val(totals).avgMinutesBetweenCommits)
           /\ IsSome(Val(totals).maxMinutesBetweenCommits)
           /\ Val(Val(totals).maxMinutesBetweenCommits) \in SessionMaxGaps
           /\ \A g \in SessionMaxGaps : g <= Val(Val(totals).maxMinutesBetweenCommits)
      ELSE /\ Val(totals).avgMinutesBetweenCommits = None
           /\ Val(totals).maxMinutesBetweenCommits = None

----------------------------------------------------------------------------
(* C17: every record that aggregateByAuthor returns has, in each field of   *)
(* AggregateStats, the value calculateTotals gives for the sessions of the  *)
(* record's author alone, taken in the order of the session list.           *)

AggregateStatsFields ==
  {"totalHours", "sessionsCount", "devDays", "totalCommits", "avgCommitsPerSession",
   "avgSessionsPerDay", "longestSessionHours", "avgSessionHours",
   "mostProductiveDayOfWeek", "longestStreakDays", "minTimeBetweenSessionsMin",
   "avgMinutesBetweenCommits", "maxMinutesBetweenCommits"}

----------------------------------------------------------------------------
(* C19: a read without cacheTTLms is served the stored result only during   *)
(* the 15 minutes (900000 ms) after the store; a read more than 15 minutes  *)
(* after the store misses.                                                  *)

\* the default of cacheTTLms according to README.md and model/types.ts
DocumentedTTLms == 900000

\* getFromCache has just returned, to a caller that has caching enabled
ReadDone == IsSome(returned) /\ Val(returned).options.cache # Some("none")

ReadKey == Val(returned).key

\* the time since the last setInCache of the key read
Elapsed == now - stored[ReadKey].at

C19_DefaultTTLFifteenMinutes ==
  (/\ ReadDone
   /\ Val(returned).options.cacheTTLms = None
   /\ ReadKey \in DOMAIN stored) =>
    /\ Elapsed > DocumentedTTLms => Val(returned).result = None
    /\ (Elapsed <= DocumentedTTLms /\ ~stored[ReadKey].expired)
         => Val(returned).result = Some(stored[ReadKey].data)

----------------------------------------------------------------------------
(* C20: with caching enabled, a read of a key with a cacheTTLms returns the *)
(* data of the last setInCache of the key when no more than cacheTTLms has  *)
(* passed since, and null when more has passed; a key never stored, or      *)
(* stored before the last clearCache, reads null; storing a key again       *)
(* replaces its data and restarts its age, and getCacheSize counts a key    *)
(* once.  As the code has it: the data is returned unless an earlier read   *)
(* since the store found the entry older than its own ttl and removed it.   *)

ReadWithTTL == ReadDone /\ IsSome(Val(returned).options.cacheTTLms)

ReadTTL == Val(Val(returned).options.cacheTTLms)

\* the claim as stated
C20_ServedUntilTTL ==
  ReadWithTTL =>
    /\ getCacheSize(cache) <= Cardinality(DOMAIN stored)
    /\ IF ReadKey \notin DOMAIN stored THEN Val(returned).result = None
       ELSE IF Elapsed > ReadTTL THEN Val(returned).result = None
       ELSE Val(returned).result = Some(stored[ReadKey].data)

C20_ServedUntilTTLUnlessExpired ==
  ReadWithTTL =>
    /\ getCacheSize(cache) <= Cardinality(DOMAIN stored)
    /\ IF ReadKey \notin DOMAIN stored THEN Val(returned).result = None
       ELSE IF Elapsed > ReadTTL \/ stored[ReadKey].expired
         THEN Val(returned).result = None
       ELSE Val(returned).result = Some(stored[ReadKey].data)

\* a read exactly cacheTTLms after the key was stored a second time, with
\* the other key in the cache too
C20_Witness ==
  /\ ReadWithTTL
  /\ ReadKey \in DOMAIN stored
  /\ stored[ReadKey].at > 0
  /\ Elapsed = ReadTTL
  /\ Val(returned).result = Some("stats2")
  /\ getCacheSize(cache) = 2

----------------------------------------------------------------------------
(* C22: fetchCommits requests the pages 1, 2, 3, ... in turn and stops      *)
(* after the first page with fewer than perPage commits (an empty page      *)
(* too) or, when maxPages is set, after the page numbered maxPages; it      *)
(* never issues more than maxPages requests, and it returns the commits of  *)
(* the fetched pages, as the filters let them pass, in the order fetched.   *)

PerPage == perPageOf(Val(fetchOptions))

\* the page the server lists under the number
ServedPage(p) == PageOf(server, p, PerPage)

ShortPage(p) == Len(ServedPage(p)) < PerPage

RECURSIVE PushedUpTo(_)
PushedUpTo(p) ==
  IF p = 0 THEN <<>>
  ELSE PushedUpTo(p - 1) \o pushedOf(ServedPage(p), Val(fetchOptions))

Returned == IsSome(outcome) /\ Val(outcome).kind = "returned"

Thrown == IsSome(outcome) /\ Val(outcome).kind = "thrown"

C22_PagesUntilShortOrMaxPages ==
  IsSome(fetchOptions) =>
    LET maxPages == Val(fetchOptions).maxPages
        n == Len(requests)
    IN /\ requests = [p \in 1..n |-> p]
       /\ IsSome(maxPages) => n <= Val(maxPages)
       /\ \A p \in 1..(n - 1) : ~ShortPage(p)
       /\ Returned =>
            /\ ShortPage(n) \/ maxPages = Some(n)
            /\ Val(outcome).commits = PushedUpTo(n)

----------------------------------------------------------------------------
(* C23 *)

\* the response that made fetchCommits throw, if the request got one
FailedResponse == Val(Val(outcome).response)

GotResponse == Thrown /\ IsSome(Val(outcome).response)

\* the message of the error response mentions a rate limit, in any case
MentionsRateLimit(response) ==
  /\ IsSome(response.body)
  /\ \E i \in 1..(Len(Val(response.body)) - 1) :
       /\ Val(response.body)[i] \in {"rate", "Rate", "RATE"}
       /\ Val(response.body)[i + 1] \in {"limit", "Limit", "LIMIT"}

\* C23: a response that is not OK makes fetchCommits throw a StatsError with
\* code NOT_FOUND for status 404, UNAUTHORIZED for 401 and RATE_LIMIT for a
\* 403 whose message mentions a rate limit; a fetch call that fails makes it
\* throw NETWORK, and the error of a status is never NETWORK; what it throws
\* carries no commits of the pages fetched before
C23_ErrorCodes ==
  Thrown =>
    /\ GotResponse =>
         /\ FailedResponse.status = 404 => Val(outcome).code = "NOT_FOUND"
         /\ FailedResponse.status = 401 => Val(outcome).code = "UNAUTHORIZED"
         /\ (FailedResponse.status = 403 /\ MentionsRateLimit(FailedResponse))
              => Val(outcome).code = "RATE_LIMIT"
         /\ Val(outcome).code # "NETWORK"
    /\ ~GotResponse => Val(outcome).code = "NETWORK"
    /\ "commits" \notin DOMAIN Val(outcome)
    /\ ~Returned

\* a 403 with the message 'API Rate Limit exceeded' on the second page, after
\* a first page whose commits were collected
C23_Witness ==
  /\ GotResponse
  /\ FailedResponse.status = 403
  /\ MentionsRateLimit(FailedResponse)
  /\ Val(outcome).code = "RATE_LIMIT"
  /\ Len(requests) = 2
  /\ loop.commits # <<>>

----------------------------------------------------------------------------
(* C21 *)

CallIdx == 1..Len(calls)

\* the call uses the memory cache
UsesCache(i) == calls[i].options.cache # Some("none")

\* the values, given or default, of the options that affect the result
EffectiveOptions(options) ==
  [since |-> options.since,
   until |-> options.until,
   authors |-> options.authors,
   excludeBots |-> excludeBotsOf(options),
   excludeMergeCommits |-> excludeMergeCommitsOf(options),
   config |-> configOf(options),
   perPage |-> perPageOf(options),
   maxPages |-> options.maxPages]

\* the two calls ask for the same repository with the same values of these
\* options
SameRequest(i, j) ==
  /\ calls[i].input = calls[j].input
  /\ EffectiveOptions(calls[i].options) = EffectiveOptions(calls[j].options)

\* the call i fetched, returned and stored its result, and the call j comes
\* within its own TTL of it
StoredWithinTTL(i, j) ==
  /\ i < j
  /\ UsesCache(i)
  /\ calls[i].fetched
  /\ ~calls[i].failed
  /\ calls[j].at - calls[i].at <= ttlMsOf(calls[j].options)

\* C21: a call with cache 'memory' that follows, within the TTL, a call
\* that stored its result is answered from the cache without a fetch when
\* the two have the same repository and the same since, until, authors,
\* excludeBots, excludeMergeCommits, sessionTimeoutMin, firstCommitBonusMin,
\* timezone, perPage and maxPages; a call is answered from the cache only
\* then; and a call with cache 'none' always fetches
C21_CachedIffSameRequest ==
  \A j \in CallIdx :
    /\ ~UsesCache(j) => calls[j].fetched
    /\ ~calls[j].fetched => \E i \in CallIdx : StoredWithinTTL(i, j) /\ SameRequest(i, j)
    /\ (j > 1 /\ UsesCache(j) /\ StoredWithinTTL(j - 1, j) /\ SameRequest(j - 1, j))
         => ~calls[j].fetched

----------------------------------------------------------------------------
(* C24 *)

\* the positions of the items of the author that have a non-empty authorLogin
WithLogin(items, author) ==
  {i \in 1..Len(items) : items[i].author = author /\ Truthy(items[i].authorLogin)}

\* login is the authorLogin of the first item of the author that has a
\* non-empty one, and empty or absent when no item of the author has one
IsFirstLogin(login, items, author) ==
  IF WithLogin(items, author) = {} THEN ~Truthy(login)
  ELSE \E i \in WithLogin(items, author) :
         /\ \A k \in WithLogin(items, author) : i <= k
         /\ login = items[i].authorLogin

\* C24: every session that buildSessions makes for an author has the
\* authorLogin of the first commit of the author, in input order, that has
\* a non-empty one, and none when no commit of the author has one; every
\* record of aggregateByAuthor has the authorLogin of the first session of
\* the author that has a non-empty one
C24_FirstNonEmptyLogin ==
  /\ (pc # "commits" /\ commits # <<>>) =>
       \A i \in SessionIdx :
         IsFirstLogin(sessions[i].authorLogin, commits, sessions[i].author)
  /\ AuthorsDone =>
       \A r \in 1..Len(perAuthor) :
         IsFirstLogin(perAuthor[r].authorLogin, sessions, perAuthor[r].author)

\* the first commit of alice has no authorLogin, the second has alice-dev,
\* the third, the earliest, has alice: both sessions and the record of alice
\* have alice-dev
C24_Witness ==
  /\ AuthorsDone
  /\ Len(commits) = 3
  /\ \A i \in 1..3 : commits[i].author = "alice"
  /\ commits[1].authorLogin = None
  /\ commits[2].authorLogin = Some("alice-dev")
  /\ commits[3].authorLogin = Some("alice")
  /\ commits[3].date < commits[2].date
  /\ Len(sessions) = 2
  /\ \A i \in SessionIdx : sessions[i].authorLogin = Some("alice-dev")
  /\ Len(perAuthor) = 1
  /\ perAuthor[1].authorLogin = Some("alice-dev")

----------------------------------------------------------------------------
(* C25 *)

\* the sum of the durations of the sessions, not rounded
TotalDuration == SumSeq([i \in SessionIdx |-> sessions[i].durationMinutes])

CommitCount == SumSeq([i \in SessionIdx |-> Len(sessions[i].commits)])

\* C25: every rounded metric of calculateAggregateStats is the exact value
\* rounded once to 2 decimals: totalHours is the rounded sum of the hours,
\* avgSessionHours the rounded quotient of the unrounded sum of the hours by
\* sessionsCount, longestSessionHours the rounded longest duration,
\* avgCommitsPerSession and avgSessionsPerDay the rounded quotients of the
\* counts
C25_RoundedOnce ==
  (TotalsDone /\ sessions # <<>>) =>
    LET t == Val(totals)
    IN /\ IsRounded(t.totalHours, TotalDuration, MsPerCentiHour)
       /\ IsRounded(t.avgSessionHours, TotalDuration, Len(sessions) * MsPerCentiHour)
       /\ \E i \in SessionIdx :
            /\ \A k \in SessionIdx : sessions[k].durationMinutes <= sessions[i].durationMinutes
            /\ IsRounded(t.longestSessionHours, sessions[i].durationMinutes, MsPerCentiHour)
       /\ IsRounded(t.avgCommitsPerSession, 100 * CommitCount, Len(sessions))
       /\ IsRounded(t.avgSessionsPerDay, 100 * Len(sessions),
                    Cardinality({sessions[i].date : i \in SessionIdx}))

\* sessions of 75 minutes and of 25.02 minutes: 1.67 hours in all and 0.83
\* on average, where half of the rounded 1.67 would round to 0.84
C25_Witness ==
  /\ TotalsDone
  /\ Len(sessions) = 2
  /\ Val(totals).totalHours = 167
  /\ Val(totals).avgSessionHours = 83
  /\ ~IsRounded(Val(totals).avgSessionHours, Val(totals).totalHours, 2)

----------------------------------------------------------------------------
(* C26 *)

\* the places, session and position in it, where the commit at position c
\* of the input is found
PlacesOf(c) ==
  {<<i, k>> \in SessionIdx \X CommitIdx :
     k <= Len(sessions[i].commits) /\ sessions[i].commits[k] = commits[c]}

\* C26: buildSessions neither loses nor duplicates a commit: every commit of
\* the input is in exactly one session, once; every session has a commit;
\* the commit counts of the sessions add up to the length of the input, and
\* no commits give no sessions
C26_CommitsConserved ==
  pc # "commits" =>
    /\ \A c \in CommitIdx : Cardinality(PlacesOf(c)) = 1
    /\ \A i \in SessionIdx : Len(sessions[i].commits) >= 1
    /\ SumSeq([i \in SessionIdx |-> Len(sessions[i].commits)]) = Len(commits)
    /\ commits = <<>> => sessions = <<>>

\* three commits of two authors in three sessions, two of them of the same
\* author
C26_Witness ==
  /\ pc = "sessions"
  /\ Len(commits) = MaxCommits
  /\ Len(sessions) = 3
  /\ \E i, j \in SessionIdx : i # j /\ sessions[i].author = sessions[j].author
  /\ \E i, j \in SessionIdx : sessions[i].author # sessions[j].author

----------------------------------------------------------------------------
(* C27 *)

\* some author has two sessions or more
AuthorWithTwoSessions ==
  \E i, j \in SessionIdx : i # j /\ sessions[i].author = sessions[j].author

\* the time from the end of a session to the start of a later session of
\* the same author, not rounded
AuthorGaps ==
  {sessions[p[2]].startTime - sessions[p[1]].endTime :
     p \in {q \in SessionIdx \X SessionIdx :
              /\ sessions[q[1]].author = sessions[q[2]].author
              /\ sessions[q[1]].endTime < sessions[q[2]].endTime}}

\* C27: on the sessions that buildSessions returns, minTimeBetweenSessionsMin
\* of calculateTotals is undefined exactly when no author has two sessions,
\* and otherwise it is the rounding of a time that is strictly greater than
\* sessionTimeoutMin
C27_MinGapExceedsTimeout ==
  (TotalsDone /\ Len(commits) > 0) =>
    LET min == Val(totals).minTimeBetweenSessionsMin
    IN /\ min = None <=> ~AuthorWithTwoSessions
       /\ IsSome(min) =>
            \E g \in AuthorGaps :
              /\ \A h \in AuthorGaps : g <= h
              /\ IsRounded(Val(min), g, MsPerCentiMinute)
              /\ g > TimeoutMs

\* an author with sessions 45 minutes apart under a timeout of 30 minutes
C27_Witness ==
  /\ TotalsDone
  /\ config.sessionTimeoutMin = 30
  /\ AuthorWithTwoSessions
  /\ Val(totals).minTimeBetweenSessionsMin = Some(4500)

----------------------------------------------------------------------------
(* C28 *)

\* the names of the weekdays on which a session starts
DaysWithSessions == {dayNames[getDay(sessions[i].startTime) + 1] : i \in SessionIdx}

\* C28: for a session list that is not empty, also one whose sessions all
\* have durationMinutes 0, mostProductiveDayOfWeek is a weekday on which a
\* session of the list starts
C28_DayHasSession ==
  (TotalsDone /\ sessions # <<>>) =>
    \E d \in DaysWithSessions : Val(totals).mostProductiveDayOfWeek = Some(d)

----------------------------------------------------------------------------
(* C29 *)

\* the sum of a field over the records of a view
SumOver(records, field) == SumSeq([k \in 1..Len(records) |-> records[k][field]])

\* C29: the sessionsCount of the records of aggregateByAuthor add up to the
\* sessionsCount of calculateTotals, and so do those of aggregateByDay; the
\* same holds of totalCommits; aggregateByDay has devDays records
C29_ViewsAgreeOnCounts ==
  DaysDone =>
    /\ SumOver(perAuthor, "sessionsCount") = Val(totals).sessionsCount
    /\ SumOver(perDay, "sessionsCount") = Val(totals).sessionsCount
    /\ SumOver(perAuthor, "totalCommits") = Val(totals).totalCommits
    /\ SumOver(perDay, "totalCommits") = Val(totals).totalCommits
    /\ Len(perDay) = Val(totals).devDays

\* three sessions of two authors on two days, five commits in all, two
\* sessions of two commits on the same day
C29_Witness ==
  /\ DaysDone
  /\ Len(sessions) = 3
  /\ Len(perAuthor) = 2
  /\ Len(perDay) = 2
  /\ Val(totals).totalCommits = 5
  /\ \E k \in 1..Len(perDay) : perDay[k].sessionsCount = 2 /\ perDay[k].totalCommits = 4

----------------------------------------------------------------------------
(* C30 *)

\* the step is a read: getFromCache returns
ReadStep == IsSome(returned')

\* the entry of the key is the same before and after the step
EntryKept(key) ==
  /\ key \in DOMAIN cache <=> key \in DOMAIN cache'
  /\ key \in DOMAIN cache => cache'[key] = cache[key]

\* the step removes the entry of the key, which is older than the
\* cacheTTLms of the read
ExpiredEntryRemoved(key, options) ==
  /\ options.cache # Some("none")
  /\ key \in DOMAIN cache
  /\ now - cache[key].timestamp > ttlMsOf(options)
  /\ key \notin DOMAIN cache'

\* C30: a read leaves the entries of the other keys as they are; it changes
\* the cache only by removing the entry of its key when that entry is older
\* than the cacheTTLms of the read; and a read of a key that has no entry,
\* as after such a removal, returns null whatever its cacheTTLms
C30_ReadFrame ==
  [][ReadStep =>
       LET key == Val(returned').key
           options == Val(returned').options
       IN /\ \A other \in CacheKeys \ {key} : EntryKept(other)
          /\ EntryKept(key) \/ ExpiredEntryRemoved(key, options)
          /\ key \notin DOMAIN cache => Val(returned').result = None]_vars

\* a read with a cacheTTLms of 30 minutes, 20 minutes after the key was
\* stored, returns null because a read with 10 minutes has removed the
\* entry, while the other key is still in the cache
C30_Witness ==
  /\ ReadWithTTL
  /\ ReadKey \in DOMAIN stored
  /\ stored[ReadKey].expired
  /\ Elapsed = 20 * MsPerMinute
  /\ ReadTTL = 30 * MsPerMinute
  /\ Val(returned).result = None
  /\ ReadKey \notin DOMAIN cache
  /\ getCacheSize(cache) = 1

============================================================================
